---------------------------- MODULE Spec2Model ----------------------------
(***************************************************************************)
(* Booking engine of the WhatsApp appointment bot (src/app.py): the text   *)
(* parsers, the slot search, the dialogue of handle_message and the        *)
(* confirmation that writes the calendar event.                            *)
(*                                                                         *)
(* Conventions.  A text is a sequence of characters, each a one-character  *)
(* string (an accented letter is written as the letter followed by a       *)
(* caret, e.g. "i^", standing for what NFKD decomposes it to).  A date is  *)
(* Python's date.toordinal(), a clock time is minutes since midnight, a    *)
(* datetime is date * 1440 + clock time.  An absent date, time or datetime *)
(* (Python's None) is NONE, an absent service is NO_SERVICE, an absent     *)
(* text is the empty text.                                                 *)
(***************************************************************************)
EXTENDS Integers, Sequences, FiniteSets, TLC

NONE == 0 - 1

NO_SERVICE == [name |-> <<>>, duration |-> 0, aliases |-> <<>>]

(***************************************************************************)
(* Characters and norm_text                                                *)
(***************************************************************************)
UpperChars == <<"A","B","C","D","E","F","G","H","I","J","K","L","M",
                "N","O","P","Q","R","S","T","U","V","W","X","Y","Z">>
LowerChars == <<"a","b","c","d","e","f","g","h","i","j","k","l","m",
                "n","o","p","q","r","s","t","u","v","w","x","y","z">>
DigitChars == <<"0","1","2","3","4","5","6","7","8","9">>
AccentedChars == {"a^", "e^", "i^", "o^", "u^"}

IndexIn(c, tup) == CHOOSE i \in 1..Len(tup) : tup[i] = c
InTuple(c, tup) == \E i \in 1..Len(tup) : tup[i] = c

IsDigit(c) == InTuple(c, DigitChars)
IsLetter(c) == InTuple(c, LowerChars)
IsWordChar(c) == IsDigit(c) \/ IsLetter(c)
DigitVal(c) == IndexIn(c, DigitChars) - 1

\* str.lower() on one character
LowerChar(c) == IF InTuple(c, UpperChars) THEN LowerChars[IndexIn(c, UpperChars)] ELSE c

\* _strip_accents on one character: NFKD splits the letter from its mark,
\* the combining mark is dropped
StripAccentChar(c) ==
  IF c = "a^" THEN "a" ELSE IF c = "e^" THEN "e" ELSE IF c = "i^" THEN "i"
  ELSE IF c = "o^" THEN "o" ELSE IF c = "u^" THEN "u" ELSE c

\* re.sub(r"[^a-z0-9\s\+\-]", " ", s) on one character
KeepOrSpace(c) == IF IsWordChar(c) \/ c = " " \/ c = "+" \/ c = "-" THEN c ELSE " "

MapChars(s) == [i \in 1..Len(s) |-> KeepOrSpace(StripAccentChar(LowerChar(s[i])))]

\* re.sub(r"\s+", " ", s).strip()
RECURSIVE CollapseSpaces(_, _)
CollapseSpaces(s, prevSpace) ==
  IF s = <<>> THEN <<>>
  ELSE IF Head(s) = " "
       THEN IF prevSpace THEN CollapseSpaces(Tail(s), TRUE)
            ELSE <<" ">> \o CollapseSpaces(Tail(s), TRUE)
       ELSE <<Head(s)>> \o CollapseSpaces(Tail(s), FALSE)

StripTrailingSpace(s) ==
  IF s # <<>> /\ s[Len(s)] = " " THEN SubSeq(s, 1, Len(s) - 1) ELSE s

norm_text(s) == StripTrailingSpace(CollapseSpaces(MapChars(s), TRUE))

\* Python: pat in t, on strings
Contains(t, pat) ==
  \E i \in 1..(Len(t) - Len(pat) + 1) : SubSeq(t, i, i + Len(pat) - 1) = pat

ContainsAny(t, pats) == \E p \in pats : Contains(t, p)

(***************************************************************************)
(* Tokens of a normalised text: the maximal runs of word characters and    *)
(* every separator character (" ", "+", "-") on its own.  The regular      *)
(* expressions of the parsers are anchored with \b, so they match whole    *)
(* tokens.                                                                 *)
(***************************************************************************)
RECURSIVE TokensFrom(_, _)
TokensFrom(s, cur) ==
  IF s = <<>> THEN (IF cur = <<>> THEN <<>> ELSE <<cur>>)
  ELSE IF IsWordChar(Head(s)) THEN TokensFrom(Tail(s), Append(cur, Head(s)))
       ELSE (IF cur = <<>> THEN <<>> ELSE <<cur>>) \o << <<Head(s)>> >> \o TokensFrom(Tail(s), <<>>)

Tokens(t) == TokensFrom(t, <<>>)

AllDigits(w) == w # <<>> /\ \A i \in 1..Len(w) : IsDigit(w[i])

RECURSIVE NumVal(_)
NumVal(w) == IF w = <<>> THEN 0 ELSE NumVal(SubSeq(w, 1, Len(w) - 1)) * 10 + DigitVal(w[Len(w)])

\* s.split(): the words between blanks
RECURSIVE SplitFrom(_, _)
SplitFrom(s, cur) ==
  IF s = <<>> THEN (IF cur = <<>> THEN <<>> ELSE <<cur>>)
  ELSE IF Head(s) = " " THEN (IF cur = <<>> THEN <<>> ELSE <<cur>>) \o SplitFrom(Tail(s), <<>>)
       ELSE SplitFrom(Tail(s), Append(cur, Head(s)))

Split(t) == SplitFrom(t, <<>>)

(***************************************************************************)
(* Literal texts used by the parsers                                       *)
(***************************************************************************)
S_oggi == <<"o","g","g","i">>
S_dopodomani == <<"d","o","p","o","d","o","m","a","n","i">>
S_domani == <<"d","o","m","a","n","i">>
S_stasera == <<"s","t","a","s","e","r","a">>
S_staser == <<"s","t","a","s","e","r">>
S_alle == <<"a","l","l","e">>
S_ore == <<"o","r","e">>
S_dopo == <<"d","o","p","o">>
S_prima == <<"p","r","i","m","a">>
S_verso == <<"v","e","r","s","o">>
S_le == <<"l","e">>
S_l == <<"l">>
S_dell == <<"d","e","l","l">>
S_delle == <<"d","e","l","l","e">>
S_mattina == <<"m","a","t","t","i","n","a">>
S_al_mattino == <<"a","l"," ","m","a","t","t","i","n","o">>
S_pomeriggio == <<"p","o","m","e","r","i","g","g","i","o">>
S_nel_pomeriggio == <<"n","e","l"," ","p","o","m","e","r","i","g","g","i","o">>
S_tardo_pomeriggio == <<"t","a","r","d","o"," ","p","o","m","e","r","i","g","g","i","o">>
S_sera == <<"s","e","r","a">>
S_in_serata == <<"i","n"," ","s","e","r","a","t","a">>
S_verso_sera == <<"v","e","r","s","o"," ","s","e","r","a">>
S_questa_settimana == <<"q","u","e","s","t","a"," ","s","e","t","t","i","m","a","n","a">>
S_in_settimana == <<"i","n"," ","s","e","t","t","i","m","a","n","a">>
S_weekend == <<"w","e","e","k","e","n","d">>
S_fine_settimana == <<"f","i","n","e"," ","s","e","t","t","i","m","a","n","a">>
S_prima_possibile == <<"p","r","i","m","a"," ","p","o","s","s","i","b","i","l","e">>
S_appena_puoi == <<"a","p","p","e","n","a"," ","p","u","o","i">>
S_appena_potete == <<"a","p","p","e","n","a"," ","p","o","t","e","t","e">>
S_lunedi == <<"l","u","n","e","d","i">>
S_lun == <<"l","u","n">>
S_lunedix == <<"l","u","n","e","d","i^">>
S_martedi == <<"m","a","r","t","e","d","i">>
S_mar == <<"m","a","r">>
S_martedix == <<"m","a","r","t","e","d","i^">>
S_mercoledi == <<"m","e","r","c","o","l","e","d","i">>
S_mer == <<"m","e","r">>
S_mercoledix == <<"m","e","r","c","o","l","e","d","i^">>
S_giovedi == <<"g","i","o","v","e","d","i">>
S_gio == <<"g","i","o">>
S_giovedix == <<"g","i","o","v","e","d","i^">>
S_venerdi == <<"v","e","n","e","r","d","i">>
S_ven == <<"v","e","n">>
S_venerdix == <<"v","e","n","e","r","d","i^">>
S_sabato == <<"s","a","b","a","t","o">>
S_sab == <<"s","a","b">>
S_domenica == <<"d","o","m","e","n","i","c","a">>
S_dom == <<"d","o","m">>

(***************************************************************************)
(* Dates and times.  A date is Python's date.toordinal(): day 1 is         *)
(* 1 January of year 1 in the proleptic Gregorian calendar.                *)
(***************************************************************************)
MinutesPerDay == 24 * 60

IsLeap(y) == (y % 4 = 0) /\ ((y % 100 # 0) \/ (y % 400 = 0))

DaysInMonth(y, m) ==
  IF m = 2 THEN (IF IsLeap(y) THEN 29 ELSE 28)
  ELSE IF m \in {4, 6, 9, 11} THEN 30 ELSE 31

DaysBeforeYear(y) == (y - 1) * 365 + ((y - 1) \div 4) - ((y - 1) \div 100) + ((y - 1) \div 400)

RECURSIVE DaysBeforeMonth(_, _)
DaysBeforeMonth(y, m) == IF m = 1 THEN 0 ELSE DaysBeforeMonth(y, m - 1) + DaysInMonth(y, m - 1)

\* dt.date(y, mo, d): NONE stands for the ValueError of an impossible date
MakeDate(y, mo, d) ==
  IF y < 1 \/ y > 9999 \/ mo < 1 \/ mo > 12 \/ d < 1 THEN NONE
  ELSE IF d > DaysInMonth(y, mo) THEN NONE
  ELSE DaysBeforeYear(y) + DaysBeforeMonth(y, mo) + d

\* date.weekday(): Monday is 0
Weekday(d) == (d + 6) % 7

\* date.year: the year whose days hold ordinal d (a 400-year cycle has 146097
\* days, which places the year within one of the estimate)
YearOf(d) ==
  LET est == ((d * 400) \div 146097) + 1
  IN CHOOSE y \in (est - 1)..(est + 1) : DaysBeforeYear(y) < d /\ d <= DaysBeforeYear(y + 1)

T(h, m) == h * 60 + m
Combine(d, t) == d * MinutesPerDay + t
DateOf(x) == x \div MinutesPerDay
TimeOf(x) == x % MinutesPerDay

(***************************************************************************)
(* parse_time                                                              *)
(***************************************************************************)
\* ([01]?\d|2[0-3]) as a whole word
HourWord(w) ==
  /\ AllDigits(w)
  /\ \/ Len(w) = 1
     \/ Len(w) = 2 /\ (w[1] \in {"0", "1"} \/ (w[1] = "2" /\ DigitVal(w[2]) <= 3))

\* ([0-5]\d) as a whole word
MinuteWord(w) == AllDigits(w) /\ Len(w) = 2 /\ DigitVal(w[1]) <= 5

\* ([01]\d|2[0-3])([0-5]\d) as a whole word
CompactTimeWord(w) ==
  /\ AllDigits(w) /\ Len(w) = 4
  /\ (w[1] \in {"0", "1"} \/ (w[1] = "2" /\ DigitVal(w[2]) <= 3))
  /\ DigitVal(w[3]) <= 5

FirstIndex(n, P(_)) == IF \E i \in 1..n : P(i) THEN CHOOSE i \in 1..n : P(i) /\ \A j \in 1..(i - 1) : ~P(j) ELSE 0

StartsWith(w, p) == Len(w) >= Len(p) /\ SubSeq(w, 1, Len(p)) = p
Rest(w, p) == SubSeq(w, Len(p) + 1, Len(w))

parse_time(text) ==
  LET t == norm_text(text)
      tk == Tokens(t)
      n == Len(tk)
      \* \b([01]?\d|2[0-3])[:\.]([0-5]\d)\b
      R1(i) == /\ i + 2 <= n /\ HourWord(tk[i])
               /\ tk[i + 1] \in {<<":">>, <<".">>} /\ MinuteWord(tk[i + 2])
      i1 == FirstIndex(n, R1)
      \* \b([01]\d|2[0-3])([0-5]\d)\b
      R2(i) == CompactTimeWord(tk[i])
      i2 == FirstIndex(n, R2)
      \* \b(?:alle|ore)\s*([01]?\d|2[0-3])\b
      R3sep(i) == /\ tk[i] \in {S_alle, S_ore} /\ i + 2 <= n
                  /\ tk[i + 1] = <<" ">> /\ HourWord(tk[i + 2])
      R3glued(i) == \E p \in {S_alle, S_ore} : StartsWith(tk[i], p) /\ HourWord(Rest(tk[i], p))
      R3(i) == R3sep(i) \/ R3glued(i)
      i3 == FirstIndex(n, R3)
      h3 == IF R3sep(i3) THEN NumVal(tk[i3 + 2])
            ELSE NumVal(Rest(tk[i3], IF StartsWith(tk[i3], S_alle) THEN S_alle ELSE S_ore))
      \* \b([01]?\d|2[0-3])\b, accepted only beside a cue word
      R4(i) == HourWord(tk[i])
      i4 == FirstIndex(n, R4)
  IN IF i1 # 0 THEN T(NumVal(tk[i1]), NumVal(tk[i1 + 2]))
     ELSE IF i2 # 0 THEN T(NumVal(SubSeq(tk[i2], 1, 2)), NumVal(SubSeq(tk[i2], 3, 4)))
     ELSE IF i3 # 0 THEN T(h3, 0)
     ELSE IF i4 # 0 /\ ContainsAny(t, {S_alle, S_ore, S_dopo, S_prima, S_verso})
          THEN T(NumVal(tk[i4]), 0)
     ELSE NONE

(***************************************************************************)
(* parse_date                                                              *)
(***************************************************************************)
WEEKDAYS_IT ==
  << <<S_lunedi, 0>>, <<S_lun, 0>>, <<S_lunedix, 0>>,
     <<S_martedi, 1>>, <<S_mar, 1>>, <<S_martedix, 1>>,
     <<S_mercoledi, 2>>, <<S_mer, 2>>, <<S_mercoledix, 2>>,
     <<S_giovedi, 3>>, <<S_gio, 3>>, <<S_giovedix, 3>>,
     <<S_venerdi, 4>>, <<S_ven, 4>>, <<S_venerdix, 4>>,
     <<S_sabato, 5>>, <<S_sab, 5>>,
     <<S_domenica, 6>>, <<S_dom, 6>> >>

DigitsUpTo(w, lo, hi) == AllDigits(w) /\ Len(w) >= lo /\ Len(w) <= hi

\* parse_date without the week added when today already is the weekday named
parse_date_same_day(text, today) ==
  LET t == norm_text(text)
      tk == Tokens(t)
      n == Len(tk)
      \* \b(\d{1,2})[\/\-](\d{1,2})(?:[\/\-](\d{2,4}))?\b
      RD(i) == /\ i + 2 <= n /\ DigitsUpTo(tk[i], 1, 2)
               /\ tk[i + 1] \in {<<"/">>, <<"-">>} /\ DigitsUpTo(tk[i + 2], 1, 2)
      iD == FirstIndex(n, RD)
      hasYear == /\ iD + 4 <= n /\ tk[iD + 3] \in {<<"/">>, <<"-">>}
                 /\ DigitsUpTo(tk[iD + 4], 2, 4)
      yraw == NumVal(tk[iD + 4])
      y == IF ~hasYear THEN YearOf(today) ELSE IF yraw < 100 THEN 2000 + yraw ELSE yraw
      WD(k) == \E i \in 1..n : tk[i] = WEEKDAYS_IT[k][1]
      kW == FirstIndex(Len(WEEKDAYS_IT), WD)
      delta0 == (WEEKDAYS_IT[kW][2] - Weekday(today)) % 7
      delta == delta0
  IN IF Contains(t, S_oggi) THEN today
     ELSE IF Contains(t, S_dopodomani) THEN today + 2
     ELSE IF Contains(t, S_domani) THEN today + 1
     ELSE IF Contains(t, S_stasera) \/ Contains(t, S_staser) THEN today
     ELSE IF iD # 0 THEN MakeDate(y, NumVal(tk[iD + 2]), NumVal(tk[iD]))
     ELSE IF kW # 0 THEN today + delta
     ELSE NONE

parse_date(text, today) ==
  LET t == norm_text(text)
      tk == Tokens(t)
      n == Len(tk)
      \* \b(\d{1,2})[\/\-](\d{1,2})(?:[\/\-](\d{2,4}))?\b
      RD(i) == /\ i + 2 <= n /\ DigitsUpTo(tk[i], 1, 2)
               /\ tk[i + 1] \in {<<"/">>, <<"-">>} /\ DigitsUpTo(tk[i + 2], 1, 2)
      iD == FirstIndex(n, RD)
      hasYear == /\ iD + 4 <= n /\ tk[iD + 3] \in {<<"/">>, <<"-">>}
                 /\ DigitsUpTo(tk[iD + 4], 2, 4)
      yraw == NumVal(tk[iD + 4])
      y == IF ~hasYear THEN YearOf(today) ELSE IF yraw < 100 THEN 2000 + yraw ELSE yraw
      WD(k) == \E i \in 1..n : tk[i] = WEEKDAYS_IT[k][1]
      kW == FirstIndex(Len(WEEKDAYS_IT), WD)
      delta0 == (WEEKDAYS_IT[kW][2] - Weekday(today)) % 7
      delta == IF delta0 = 0 THEN 7 ELSE delta0
  IN IF Contains(t, S_oggi) THEN today
     ELSE IF Contains(t, S_dopodomani) THEN today + 2
     ELSE IF Contains(t, S_domani) THEN today + 1
     ELSE IF Contains(t, S_stasera) \/ Contains(t, S_staser) THEN today
     ELSE IF iD # 0 THEN MakeDate(y, NumVal(tk[iD + 2]), NumVal(tk[iD]))
     ELSE IF kW # 0 THEN today + delta
     ELSE NONE

(***************************************************************************)
(* parse_window, parse_flags                                               *)
(***************************************************************************)
\* ([0-2]?\d(?:[:\.][0-5]\d)?) followed by \b: on a normalised text, one word
BoundWord(w) ==
  /\ AllDigits(w)
  /\ (Len(w) = 1 \/ (Len(w) = 2 /\ DigitVal(w[1]) <= 2))

Or(a, b) == IF a # NONE THEN a ELSE b

\* a day part named in the text fills the bounds the text did not give
Daypart(t, words, lo, hi, w) ==
  IF ContainsAny(t, words) THEN [after |-> Or(w.after, lo), before |-> Or(w.before, hi)] ELSE w

\* the bound after "dopo le" / "prima delle": the word at tk[i + 4], i the
\* first place the pattern matches, or none
BoundAt(tk, i) == IF i # 0 THEN parse_time(tk[i + 4]) ELSE NONE

ExplicitWindow(tk) ==
  LET n == Len(tk)
      \* \bdopo\s+le?\s+(...)\b
      RA(i) == /\ i + 4 <= n /\ tk[i] = S_dopo /\ tk[i + 1] = <<" ">>
               /\ tk[i + 2] \in {S_le, S_l} /\ tk[i + 3] = <<" ">> /\ BoundWord(tk[i + 4])
      \* \bprima\s+delle?\s+(...)\b
      RB(i) == /\ i + 4 <= n /\ tk[i] = S_prima /\ tk[i + 1] = <<" ">>
               /\ tk[i + 2] \in {S_delle, S_dell} /\ tk[i + 3] = <<" ">> /\ BoundWord(tk[i + 4])
  IN [after |-> BoundAt(tk, FirstIndex(n, RA)), before |-> BoundAt(tk, FirstIndex(n, RB))]

WindowOf(t) ==
  Daypart(t, {S_sera, S_in_serata, S_verso_sera, S_stasera}, T(17, 30), T(22, 0),
    Daypart(t, {S_pomeriggio, S_nel_pomeriggio, S_tardo_pomeriggio}, T(14, 0), T(19, 0),
      Daypart(t, {S_mattina, S_al_mattino}, T(9, 0), T(12, 0),
        ExplicitWindow(Tokens(t)))))

parse_window(text) == WindowOf(norm_text(text))

parse_flags(text) ==
  LET t == norm_text(text)
  IN [this_week |-> ContainsAny(t, {S_questa_settimana, S_in_settimana}),
      weekend |-> ContainsAny(t, {S_weekend, S_fine_settimana}),
      asap |-> ContainsAny(t, {S_prima_possibile, S_appena_puoi, S_appena_potete})]

(***************************************************************************)
(* Service selection: pick_service_from_text and its helpers               *)
(***************************************************************************)
S_barba == <<"b","a","r","b","a">>
S_rasatura == <<"r","a","s","a","t","u","r","a">>
S_taglio == <<"t","a","g","l","i","o">>
S_capelli == <<"c","a","p","e","l","l","i">>
S_colore == <<"c","o","l","o","r","e">>
S_tinta == <<"t","i","n","t","a">>
S_meches == <<"m","e","c","h","e","s">>
S_balayage == <<"b","a","l","a","y","a","g","e">>
S_piega == <<"p","i","e","g","a">>
S_phon == <<"p","h","o","n">>
S_brushing == <<"b","r","u","s","h","i","n","g">>
S_ceretta == <<"c","e","r","e","t","t","a">>
S_wax == <<"w","a","x">>
S_manicure == <<"m","a","n","i","c","u","r","e">>
S_unghie == <<"u","n","g","h","i","e">>
S_pedicure == <<"p","e","d","i","c","u","r","e">>
S_pulizia_viso == <<"p","u","l","i","z","i","a"," ","v","i","s","o">>
S_viso == <<"v","i","s","o">>
S_massaggio == <<"m","a","s","s","a","g","g","i","o">>
S_taglio_e_barba == <<"t","a","g","l","i","o"," ","e"," ","b","a","r","b","a">>
S_uomo == <<"u","o","m","o">>
S_unisex == <<"u","n","i","s","e","x">>
S_taglio_uomo == <<"t","a","g","l","i","o"," ","u","o","m","o">>
S_taglio_capelli == <<"t","a","g","l","i","o"," ","c","a","p","e","l","l","i">>
S_taglio_uomo_p30m == <<"t","a","g","l","i","o"," ","u","o","m","o"," ","(","3","0","m",")">>
S_taglio_uomo_30m == <<"t","a","g","l","i","o"," ","u","o","m","o"," ","3","0","m">>

\* A service row of the "services" tab: [name, duration, aliases], name and
\* aliases texts, duration the minutes already read by service_duration
service_duration(svc) == svc.duration

\* _service_phrases: the normalised name and aliases, empty ones dropped
_service_phrases(s) ==
  LET nm == IF norm_text(s.name) # <<>> THEN <<norm_text(s.name)>> ELSE <<>>
      al == SelectSeq([i \in 1..Len(s.aliases) |-> norm_text(s.aliases[i])], LAMBDA a : a # <<>>)
  IN nm \o al

\* difflib.SequenceMatcher.find_longest_match on a[alo..ahi), b[blo..bhi)
\* (1-based, half-open): the longest common block, the earliest in a and
\* then the earliest in b among the longest
BlockLen(a, b, i, j, ahi, bhi) ==
  LET ok(k) == i + k <= ahi /\ j + k <= bhi /\ \A x \in 0..(k - 1) : a[i + x] = b[j + x]
  IN CHOOSE k \in 0..(ahi - i) : ok(k) /\ (k = ahi - i \/ ~ok(k + 1))

find_longest_match(a, b, alo, ahi, blo, bhi) ==
  LET \* len[c]: the length of the common block that starts at a[c[1]], b[c[2]]
      Earliest(len, best) ==
        CHOOSE c \in DOMAIN len :
          /\ len[c] = best
          /\ \A e \in DOMAIN len : len[e] = best =>
               (c[1] < e[1] \/ (c[1] = e[1] /\ c[2] <= e[2]))
      Block(c, best) == <<c[1], c[2], best>>
      Pick(len, best) ==
        IF best = 0 THEN <<alo, blo, 0>> ELSE Block(Earliest(len, best), best)
      Longest(len) ==
        IF DOMAIN len = {} THEN <<alo, blo, 0>>
        ELSE Pick(len, CHOOSE k \in 0..(ahi - alo) :
                         (\E c \in DOMAIN len : len[c] = k) /\ \A c \in DOMAIN len : len[c] <= k)
  IN Longest([c \in {<<i, j>> : i \in alo..(ahi - 1), j \in blo..(bhi - 1)} |->
                BlockLen(a, b, c[1], c[2], ahi, bhi)])

\* the total size of get_matching_blocks
RECURSIVE MatchedChars(_, _, _, _, _, _)
MatchedChars(a, b, alo, ahi, blo, bhi) ==
  IF alo >= ahi \/ blo >= bhi THEN 0
  ELSE LET Around(m) ==
             IF m[3] = 0 THEN 0
             ELSE m[3] + MatchedChars(a, b, alo, m[1], blo, m[2])
                       + MatchedChars(a, b, m[1] + m[3], ahi, m[2] + m[3], bhi)
       IN Around(find_longest_match(a, b, alo, ahi, blo, bhi))

\* SequenceMatcher(a = x, b = word).ratio() as the fraction <<2M, T>>
Ratio(x, word) == <<2 * MatchedChars(x, word, 1, Len(x) + 1, 1, Len(word) + 1), Len(x) + Len(word)>>

\* the order of Python strings, over the characters of a normalised text
CharRank(c) ==
  IF c = " " THEN 0 ELSE IF c = "+" THEN 1 ELSE IF c = "-" THEN 2
  ELSE IF IsDigit(c) THEN 3 + DigitVal(c) ELSE 13 + IndexIn(c, LowerChars)

RECURSIVE StrLess(_, _)
StrLess(x, y) ==
  IF y = <<>> THEN FALSE
  ELSE IF x = <<>> THEN TRUE
  ELSE IF Head(x) = Head(y) THEN StrLess(Tail(x), Tail(y))
  ELSE CharRank(Head(x)) < CharRank(Head(y))

FUZZY_CUTOFF_NUM == 4
FUZZY_CUTOFF_DEN == 5

\* difflib.get_close_matches(word, candidates, n=1, cutoff=0.80): empty when
\* nothing reaches the cutoff, else the best-scoring candidate (the greatest
\* string among equal scores, as heapq.nlargest orders the pairs)
get_close_match(word, candidates) ==
  LET \* r[i]: the ratio of candidate i
      Better(r, i, j) ==
        \/ r[i][1] * r[j][2] > r[j][1] * r[i][2]
        \/ r[i][1] * r[j][2] = r[j][1] * r[i][2] /\ ~StrLess(candidates[i], candidates[j])
      Best(r, good) ==
        IF good = {} THEN <<>>
        ELSE candidates[CHOOSE i \in good : \A j \in good : Better(r, i, j)]
      Scored(r) ==
        Best(r, {i \in 1..Len(candidates) :
                   r[i][2] > 0 /\ r[i][1] * FUZZY_CUTOFF_DEN >= FUZZY_CUTOFF_NUM * r[i][2]})
  IN Scored([i \in 1..Len(candidates) |-> Ratio(candidates[i], word)])

SERVICE_KEYWORDS ==
  << {S_barba, S_rasatura}, {S_taglio, S_capelli},
     {S_colore, S_tinta, S_meches, S_balayage}, {S_piega, S_phon, S_brushing},
     {S_ceretta, S_wax}, {S_manicure, S_unghie}, {S_pedicure},
     {S_pulizia_viso, S_viso}, {S_massaggio} >>

FUZZY_MIN_TOKEN_LEN == 4
FUZZY_MAX_TOKENS == 6

\* the first n elements of a sequence (Python's s[:n])
Take(s, n) == SubSeq(s, 1, IF Len(s) < n THEN Len(s) ELSE n)

pick_service_from_text(services, text) ==
  LET t == norm_text(text)
      ns == Len(services)
      \* 1) the text contains the name or an alias
      Direct(i) == \E k \in 1..Len(_service_phrases(services[i])) :
                      Contains(t, _service_phrases(services[i])[k])
      i1 == FirstIndex(ns, Direct)
      \* 2) keyword groups: the first group with a word in the text and a
      \*    service whose name holds a word of the group
      NameHas(i, g) == ContainsAny(norm_text(services[i].name), SERVICE_KEYWORDS[g])
      Group(g) == ContainsAny(t, SERVICE_KEYWORDS[g]) /\ \E i \in 1..ns : NameHas(i, g)
      g2 == FirstIndex(Len(SERVICE_KEYWORDS), Group)
      InGroup(i) == NameHas(i, g2)
      i2 == FirstIndex(ns, InGroup)
      \* 3) fuzzy match of the long words of the text on the names
      \*    (match[k]: the close match of the k-th word, empty when none)
      Named(named, best) ==
        LET IsBest(i) == norm_text(named[i].name) = best
        IN named[FirstIndex(Len(named), IsBest)]
      FirstHit(named, match) ==
        LET Hit(k) == match[k] # <<>>
            At(k3) == IF k3 = 0 THEN NO_SERVICE ELSE Named(named, match[k3])
        IN At(FirstIndex(Len(match), Hit))
      Matches(named, candidates, tokens) ==
        FirstHit(named, [k \in 1..Len(tokens) |-> get_close_match(tokens[k], candidates)])
      Fuzzy(named) ==
        Matches(named, [i \in 1..Len(named) |-> norm_text(named[i].name)],
                Take(SelectSeq(Split(t), LAMBDA w : Len(w) >= FUZZY_MIN_TOKEN_LEN), FUZZY_MAX_TOKENS))
  IN IF t = <<>> \/ ns = 0 THEN NO_SERVICE
     ELSE IF i1 # 0 THEN services[i1]
     ELSE IF g2 # 0 THEN services[i2]
     ELSE Fuzzy(SelectSeq(services, LAMBDA s : norm_text(s.name) # <<>>))

PREFERRED_UOMO == {S_taglio, S_taglio_uomo, S_taglio_capelli, S_taglio_uomo_p30m, S_taglio_uomo_30m}

default_service_if_single(services, gender) ==
  LET Pref(i) == norm_text(services[i].name) \in PREFERRED_UOMO
      ip == FirstIndex(Len(services), Pref)
  IN IF Len(services) = 1 THEN services[1]
     ELSE IF gender = S_uomo /\ ip # 0 THEN services[ip]
     ELSE NO_SERVICE

has_service_with_keyword(services, kw) ==
  \E i \in 1..Len(services) : Contains(norm_text(services[i].name), norm_text(kw))

find_combo_taglio_barba(services) ==
  LET Combo(i) == /\ Contains(norm_text(services[i].name), S_taglio)
                  /\ Contains(norm_text(services[i].name), S_barba)
      ic == FirstIndex(Len(services), Combo)
  IN IF ic # 0 THEN services[ic] ELSE NO_SERVICE

(***************************************************************************)
(* State                                                                   *)
(***************************************************************************)
VARIABLES
  shop,       \* the row of the "shops" tab with its services and hours
  now,        \* the wall clock, a datetime in the shop's timezone
  sessions,   \* the "sessions" tab: customer phone -> row
  customers,  \* the "customers" tab: customer phone -> row
  events,     \* the shop calendar: the events in insertion order
  last,       \* what the last step did (observation only)
  pc,         \* concurrent deliveries: the position of each in handle_message
  loc         \* concurrent deliveries: the local variables of each

vars == <<shop, now, sessions, customers, events, last, pc, loc>>

(***************************************************************************)
(* Calendar: count_overlaps, slot_has_capacity, create_event               *)
(***************************************************************************)
\* events().list(timeMin = start, timeMax = end): the events that end after
\* timeMin and start before timeMax (the model never holds 250 events, the
\* page size)
OverlappingIn(evs, start, end) == {i \in 1..Len(evs) : evs[i].end > start /\ evs[i].start < end}

count_overlaps_in(evs, start, end) == Cardinality(OverlappingIn(evs, start, end))

count_overlaps(start, end) == count_overlaps_in(events, start, end)

Max(a, b) == IF a >= b THEN a ELSE b
Min(a, b) == IF a <= b THEN a ELSE b

\* slot_has_capacity with <= for <: one event too many gets through
slot_has_capacity_inclusive(start, end, capacity) == count_overlaps(start, end) <= Max(1, capacity)

slot_has_capacity(start, end, capacity) == count_overlaps(start, end) < Max(1, capacity)

\* the event create_event inserts
NewEvent(start, end, customer_phone, service_name) ==
  [start |-> start, end |-> end, phone |-> customer_phone, service |-> service_name,
   kind |-> "booking"]

(***************************************************************************)
(* Slot finding: round_up_to_slot, in_open_hours, find_slots               *)
(***************************************************************************)
\* dtobj.replace(minute = (minute // slot) * slot), one slot later when that
\* falls before dtobj
round_up_to_slot(dtobj, slot_minutes) ==
  LET minute == TimeOf(dtobj) % 60
      base == dtobj - minute + (minute \div slot_minutes) * slot_minutes
  IN IF base < dtobj THEN base + slot_minutes ELSE base

\* in_open_hours with < for the end: a slot ending at closing time is refused
in_open_hours_strict(hours_map, d, start_t, end_t) ==
  \E k \in 1..Len(hours_map[Weekday(d)]) :
     hours_map[Weekday(d)][k][1] <= start_t /\ end_t < hours_map[Weekday(d)][k][2]

in_open_hours(hours_map, d, start_t, end_t) ==
  \E k \in 1..Len(hours_map[Weekday(d)]) :
     hours_map[Weekday(d)][k][1] <= start_t /\ end_t <= hours_map[Weekday(d)][k][2]

\* the candidates of one open interval of day d, in the order of the while loop
RangeSlots(d, st, en, duration, after, before, slot_minutes, capacity) ==
  LET start0 == IF after # NONE THEN Max(Combine(d, st), Combine(d, after)) ELSE Combine(d, st)
      end_dt == IF before # NONE THEN Min(Combine(d, en), Combine(d, before)) ELSE Combine(d, en)
      start_dt == IF d = DateOf(now) THEN Max(start0, round_up_to_slot(now, slot_minutes)) ELSE start0
      cur0 == round_up_to_slot(start_dt, slot_minutes)
      n == IF cur0 + duration <= end_dt THEN ((end_dt - duration - cur0) \div slot_minutes) + 1 ELSE 0
      all == [k \in 1..n |-> cur0 + (k - 1) * slot_minutes]
  IN IF end_dt <= start0 THEN <<>>
     ELSE SelectSeq(all, LAMBDA cur : slot_has_capacity(cur, cur + duration, capacity))

RECURSIVE DaySlots(_, _, _, _, _, _, _, _)
DaySlots(d, ranges, k, duration, after, before, slot_minutes, capacity) ==
  IF k > Len(ranges) THEN <<>>
  ELSE RangeSlots(d, ranges[k][1], ranges[k][2], duration, after, before, slot_minutes, capacity)
       \o DaySlots(d, ranges, k + 1, duration, after, before, slot_minutes, capacity)

\* the day loop: it returns as soon as `limit` results are collected
RECURSIVE ScanDays(_, _, _, _, _, _, _, _, _)
ScanDays(hours_map, base, day_off, max_days, duration, after, before, limit, results) ==
  IF Len(results) >= limit THEN Take(results, limit)
  ELSE IF day_off > max_days THEN results
  ELSE ScanDays(hours_map, base, day_off + 1, max_days, duration, after, before, limit,
                results \o DaySlots(base + day_off, hours_map[Weekday(base + day_off)], 1,
                                    duration, after, before, shop.slot_minutes, shop.capacity))

find_slots(hours_map, service_duration_min, preferred_date, exact_time, after, before, limit, max_days) ==
  LET today == DateOf(now)
      base0 == IF preferred_date # NONE THEN preferred_date ELSE today
      base == IF base0 < today THEN today ELSE base0
      start == Combine(preferred_date, exact_time)
      end == start + service_duration_min
      exact == /\ preferred_date # NONE /\ exact_time # NONE
               /\ in_open_hours(hours_map, preferred_date, TimeOf(start), TimeOf(end))
               /\ ~(preferred_date = today /\ start < now)
               /\ slot_has_capacity(start, end, shop.capacity)
  IN IF exact THEN <<start>>
     ELSE ScanDays(hours_map, base, 0, max_days, service_duration_min, after, before, limit, <<>>)

(***************************************************************************)
(* pick_better_alternatives                                                *)
(***************************************************************************)
Abs(x) == IF x < 0 THEN 0 - x ELSE x

\* sorted(slots, key = distance from req_dt): a stable sort
RECURSIVE InsertByDistance(_, _, _)
InsertByDistance(sorted, x, req_dt) ==
  IF sorted = <<>> THEN <<x>>
  ELSE IF Abs(sorted[Len(sorted)] - req_dt) <= Abs(x - req_dt) THEN Append(sorted, x)
  ELSE Append(InsertByDistance(SubSeq(sorted, 1, Len(sorted) - 1), x, req_dt), sorted[Len(sorted)])

RECURSIVE SortByDistance(_, _)
SortByDistance(s, req_dt) ==
  IF s = <<>> THEN <<>>
  ELSE InsertByDistance(SortByDistance(SubSeq(s, 1, Len(s) - 1), req_dt), s[Len(s)], req_dt)

NEARBY_WINDOW_MINUTES == 120

\* a loop "for s in src: if keep(s): out.append(s); if len(out) >= limit: return out":
\* <<out, returned>>
RECURSIVE AppendWhile(_, _, _, _)
AppendWhile(out, src, Keep(_), limit) ==
  IF src = <<>> THEN <<out, FALSE>>
  ELSE LET out2 == IF Keep(Head(src)) THEN Append(out, Head(src)) ELSE out
       IN IF Len(out2) >= limit THEN <<out2, TRUE>>
          ELSE AppendWhile(out2, Tail(src), Keep, limit)

\* a loop "for s in src: if len(out) >= limit: return out; out.append(s)"
RECURSIVE AppendUntilFull(_, _, _)
AppendUntilFull(out, src, limit) ==
  IF src = <<>> THEN <<out, FALSE>>
  ELSE IF Len(out) >= limit THEN <<out, TRUE>>
  ELSE AppendUntilFull(Append(out, Head(src)), Tail(src), limit)

InSeq(x, s) == \E i \in 1..Len(s) : s[i] = x

RECURSIVE Uniq(_, _)
Uniq(s, seen) ==
  IF s = <<>> THEN <<>>
  ELSE IF Head(s) \in seen THEN Uniq(Tail(s), seen)
  ELSE <<Head(s)>> \o Uniq(Tail(s), seen \cup {Head(s)})

\* a loop "for s in src: if s not in out: out.append(s); if len(out) >= limit: break"
RECURSIVE FillMissing(_, _, _)
FillMissing(out, src, limit) ==
  IF src = <<>> THEN out
  ELSE LET out2 == IF InSeq(Head(src), out) THEN out ELSE Append(out, Head(src))
       IN IF Len(out2) >= limit THEN out2 ELSE FillMissing(out2, Tail(src), limit)

pick_better_alternatives(hours_map, duration_min, requested_date, requested_time, after, before, limit) ==
  LET req_dt == Combine(requested_date, requested_time)
      KeepAfter(s) == s >= req_dt /\ s - req_dt <= NEARBY_WINDOW_MINUTES
      KeepBefore(s) == s < req_dt /\ req_dt - s <= NEARBY_WINDOW_MINUTES
      \* 4) fallback: the next free slots, then the duplicates dropped
      Filled(out) == Take(Uniq(out, {}), limit)
      Step4(r3) ==
        IF r3[2] THEN r3[1]
        ELSE IF Len(r3[1]) < limit
        THEN Filled(FillMissing(r3[1],
                                find_slots(hours_map, duration_min, requested_date, NONE,
                                           NONE, NONE, limit, 7),
                                limit))
        ELSE Filled(r3[1])
      \* 3) gaps before (within two hours)
      Step3(r2) ==
        IF r2[2] THEN r2[1]
        ELSE Step4(AppendWhile(r2[1],
                               SortByDistance(find_slots(hours_map, duration_min, requested_date, NONE,
                                                         after, Or(before, requested_time), 10, 0),
                                              req_dt),
                               KeepBefore, limit))
      \* 2) same time on the next days
      Step2(r1) ==
        IF r1[2] THEN r1[1]
        ELSE Step3(AppendUntilFull(r1[1],
                                   find_slots(hours_map, duration_min, requested_date + 1,
                                              requested_time, NONE, NONE, 10, 7),
                                   limit))
      \* 1) same day, just after (within two hours)
  IN Step2(AppendWhile(<<>>,
                       SortByDistance(find_slots(hours_map, duration_min, requested_date, NONE,
                                                 Or(after, requested_time), before, 10, 0),
                                      req_dt),
                       KeepAfter, limit))

(***************************************************************************)
(* Session and customer rows                                               *)
(***************************************************************************)
SESSION_TTL_MINUTES == 30
MAX_LOOKAHEAD_DAYS == 14

\* isoformat() / fromisoformat() of dates, times and datetimes: the text is
\* kept as its numeric fields, <<>> is the JSON null
RECURSIVE MonthOfDay(_, _, _)
MonthOfDay(y, m, n) == IF n <= DaysInMonth(y, m) THEN <<m, n>> ELSE MonthOfDay(y, m + 1, n - DaysInMonth(y, m))

IsoDate(d) ==
  IF d = NONE THEN <<>>
  ELSE LET y == YearOf(d)
           md == MonthOfDay(y, 1, d - DaysBeforeYear(y))
       IN <<y, md[1], md[2]>>
FromIsoDate(iso) == IF iso = <<>> THEN NONE ELSE MakeDate(iso[1], iso[2], iso[3])

IsoTime(t) == IF t = NONE THEN <<>> ELSE <<t \div 60, t % 60>>
FromIsoTime(iso) == IF iso = <<>> THEN NONE ELSE T(iso[1], iso[2])

IsoDateTime(x) == IsoDate(DateOf(x)) \o IsoTime(TimeOf(x))
FromIsoDateTime(iso) == Combine(MakeDate(iso[1], iso[2], iso[3]), T(iso[4], iso[5]))

IsoAll(s) == [i \in 1..Len(s) |-> IsoDateTime(s[i])]

NoFlags == [this_week |-> FALSE, weekend |-> FALSE, asap |-> FALSE]
NoPending == [date |-> <<>>, time |-> <<>>, after |-> <<>>, before |-> <<>>, flags |-> NoFlags]

\* The JSON payload of a session: `keys` are the keys the object holds, the
\* other fields their values (the default when the key is absent)
EmptyData ==
  [keys |-> {}, service |-> NO_SERVICE, date |-> <<>>, time |-> <<>>, after |-> <<>>,
   before |-> <<>>, options |-> <<>>, slot_iso |-> <<>>, upsell_barba_done |-> FALSE,
   pending |-> NoPending, options_hint |-> <<>>]

\* a row of the "sessions" tab; exists = FALSE: the customer has no row
NoSession == [exists |-> FALSE, state |-> "", data |-> EmptyData, updated_at |-> NONE]

\* a row of the "customers" tab
NoCustomer == [exists |-> FALSE, last_service |-> <<>>, total_visits |-> 0]

\* session_expired counting a session as fresh for twice the TTL
session_expired_late(sess) ==
  IF sess.updated_at = NONE THEN TRUE
  ELSE now - sess.updated_at > 2 * SESSION_TTL_MINUTES

\* session_expired: no timestamp, or older than the TTL
session_expired(sess) ==
  IF sess.updated_at = NONE THEN TRUE
  ELSE now - sess.updated_at > SESSION_TTL_MINUTES

(***************************************************************************)
(* The writes of a turn, in the order handle_message makes them            *)
(***************************************************************************)
SaveSession(state, data) ==
  [op |-> "save_session", state |-> state, data |-> data, start |-> NONE, end |-> NONE, service |-> <<>>]
ResetSession == SaveSession("", EmptyData)
CreateEvent(start, end, service_name) ==
  [op |-> "create_event", state |-> "", data |-> EmptyData, start |-> start, end |-> end, service |-> service_name]
UpsertCustomer(last_service) ==
  [op |-> "upsert_customer", state |-> "", data |-> EmptyData, start |-> NONE, end |-> NONE, service |-> last_service]

\* save_session: upsert_row on the customer's row, stamped with the clock
save_session(tab, c, state, data) ==
  [tab EXCEPT ![c] = [exists |-> TRUE, state |-> state, data |-> data, updated_at |-> now]]

\* upsert_customer that does not read the visits the row holds
upsert_customer_first_visit(tab, c, last_service) ==
  [tab EXCEPT ![c] = [exists |-> TRUE, last_service |-> last_service, total_visits |-> 1]]

\* upsert_customer: one more visit than the row holds, the last service set
upsert_customer(tab, c, last_service) ==
  [tab EXCEPT ![c] = [exists |-> TRUE, last_service |-> last_service,
                      total_visits |-> (IF tab[c].exists THEN tab[c].total_visits ELSE 0) + 1]]

\* create_event: events().insert, with no look-up of an earlier event
create_event(evs, start, end, customer_phone, service_name) ==
  Append(evs, NewEvent(start, end, customer_phone, service_name))

\* the store after the first n writes of a turn of customer c
RECURSIVE ApplyWrites(_, _, _, _)
ApplyWrites(st, c, effs, n) ==
  IF n = 0 \/ effs = <<>> THEN st
  ELSE LET e == Head(effs)
           st2 == IF e.op = "save_session"
                  THEN [st EXCEPT !.sessions = save_session(st.sessions, c, e.state, e.data)]
                  ELSE IF e.op = "create_event"
                  THEN [st EXCEPT !.events = create_event(st.events, e.start, e.end, c, e.service)]
                  ELSE [st EXCEPT !.customers = upsert_customer(st.customers, c, e.service)]
       IN ApplyWrites(st2, c, Tail(effs), n - 1)

(***************************************************************************)
(* handle_message.  x holds the local variables of the call; every stage   *)
(* below is one block of the function: it returns (x.done, with the reply, *)
(* named rather than worded, and the writes made) or hands x to the block  *)
(* after it.                                                               *)
(***************************************************************************)
S_annulla == <<"a","n","n","u","l","l","a">>
S_cancella == <<"c","a","n","c","e","l","l","a">>
S_stop == <<"s","t","o","p">>
S_no == <<"n","o">>
S_non_va_bene == <<"n","o","n"," ","v","a"," ","b","e","n","e">>
S_non_confermo == <<"n","o","n"," ","c","o","n","f","e","r","m","o">>
S_ok == <<"o","k">>
S_va_bene == <<"v","a"," ","b","e","n","e">>
S_confermo == <<"c","o","n","f","e","r","m","o">>
S_conferma == <<"c","o","n","f","e","r","m","a">>
S_si == <<"s","i">>
S_six == <<"s","i^">>
S_perfetto == <<"p","e","r","f","e","t","t","o">>
S_certo == <<"c","e","r","t","o">>
S_ciao == <<"c","i","a","o">>
S_salve == <<"s","a","l","v","e">>
S_buongiorno == <<"b","u","o","n","g","i","o","r","n","o">>
S_buonasera == <<"b","u","o","n","a","s","e","r","a">>
S_hey == <<"h","e","y">>
S_prenot == <<"p","r","e","n","o","t">>
S_appunt == <<"a","p","p","u","n","t">>
S_posto == <<"p","o","s","t","o">>
S_disponib == <<"d","i","s","p","o","n","i","b">>
S_libero == <<"l","i","b","e","r","o">>
S_buco == <<"b","u","c","o">>
S_passo == <<"p","a","s","s","o">>
S_riesco == <<"r","i","e","s","c","o">>
S_Appuntamento == <<"A","p","p","u","n","t","a","m","e","n","t","o">>

CONFIRM_WORDS == {S_ok, S_va_bene, S_confermo, S_conferma, S_si, S_six, S_perfetto, S_certo}
CANCEL_WORDS == {S_annulla, S_cancella, S_stop, S_no, S_non_va_bene, S_non_confermo}
GREETING_WORDS == {S_ciao, S_salve, S_buongiorno, S_buonasera, S_hey}
BOOKING_WORDS == {S_prenot, S_appunt, S_posto, S_disponib, S_libero, S_buco, S_passo, S_riesco}

FALLBACK_SERVICE == [name |-> S_Appuntamento, duration |-> 30, aliases |-> <<>>]

(***************************************************************************)
(* The shops, customers and messages of the model                          *)
(***************************************************************************)
M_appuntamento_per_un_taglio == <<"a","p","p","u","n","t","a","m","e","n","t","o"," ","p","e","r"," ","u","n"," ","t","a","g","l","i","o">>
M_domani_alle_18 == <<"d","o","m","a","n","i"," ","a","l","l","e"," ","1","8">>
M_domani_pomeriggio == <<"d","o","m","a","n","i"," ","p","o","m","e","r","i","g","g","i","o">>
M_solo_taglio == <<"s","o","l","o"," ","t","a","g","l","i","o">>
N_Taglio == <<"T","a","g","l","i","o">>
N_Colore == <<"C","o","l","o","r","e">>
N_Barba == <<"B","a","r","b","a">>
N_Taglio_e_Barba == <<"T","a","g","l","i","o"," ","e"," ","B","a","r","b","a">>
M_OK == <<"O","K">>
M_2 == <<"2">>
M_9 == <<"9">>
M_alle_18 == <<"a","l","l","e"," ","1","8">>
M_domani_alle_3 == <<"d","o","m","a","n","i"," ","a","l","l","e"," ","3">>
M_2_12 == <<"2","-","1","2">>
M_oggi_alle_18 == <<"o","g","g","i"," ","a","l","l","e"," ","1","8">>
M_sabato_mattina == <<"s","a","b","a","t","o"," ","m","a","t","t","i","n","a">>
M_venerdi_alle_18 == <<"v","e","n","e","r","d","i"," ","a","l","l","e"," ","1","8">>
M_Giovedi == <<"G","i","o","v","e","d","i">>

Service(name, duration) == [name |-> name, duration |-> duration, aliases |-> <<>>]

\* open Monday and Tuesday 17:00-19:00, closed the other days
Hours == [w \in 0..6 |-> IF w \in {0, 1} THEN << <<T(17, 0), T(19, 0)>> >> ELSE <<>>]

UnisexShop(capacity) ==
  [gender |-> S_unisex, capacity |-> capacity, slot_minutes |-> 30, hours |-> Hours,
   services |-> <<Service(N_Taglio, 30), Service(N_Colore, 60)>>]

UomoShop(capacity) ==
  [gender |-> S_uomo, capacity |-> capacity, slot_minutes |-> 30, hours |-> Hours,
   services |-> <<Service(N_Taglio, 30), Service(N_Barba, 30), Service(N_Taglio_e_Barba, 60)>>]

Shops == {UnisexShop(1), UomoShop(2)}

\* a shop with one service and one bookable slot a week, Tuesday 18:00
TightHours == [w \in 0..6 |-> IF w = 1 THEN << <<T(18, 0), T(18, 30)>> >> ELSE <<>>]

TightShop ==
  [gender |-> S_unisex, capacity |-> 1, slot_minutes |-> 30, hours |-> TightHours,
   services |-> <<Service(N_Taglio, 30)>>]

AllCustomers == {"3331112222", "3334445555"}
Customers == {"3331112222"}

\* Monday 2 December 2024, 16:40
Today0 == MakeDate(2024, 12, 2)
Now0 == Combine(Today0, T(16, 40))

Messages ==
  {S_annulla, M_OK, S_ciao, M_appuntamento_per_un_taglio, S_domani, M_alle_18,
   M_domani_alle_18, M_domani_pomeriggio, M_2, M_9, M_solo_taglio, S_taglio_e_barba}

\* the messages of the dialogues that answer an offer with a new day or time
ChooseMessages ==
  {M_domani_pomeriggio, M_appuntamento_per_un_taglio, M_domani_alle_3, M_2_12, M_OK}

\* the messages of the dialogues that ask for a time of today
TodayMessages ==
  {M_oggi_alle_18, M_appuntamento_per_un_taglio, M_solo_taglio, M_2, M_OK, S_annulla}

\* the five greetings of line 938, and the messages of one booking
GreetingMessages ==
  {S_ciao, S_salve, S_buongiorno, S_buonasera, S_hey,
   M_appuntamento_per_un_taglio, M_domani_alle_18, M_OK}

\* every message of the model
TableTexts == Messages \cup ChooseMessages \cup TodayMessages \cup GreetingMessages

\* bounds of the model
MaxEvents == 2
MaxTicks == 1
TickMinutes == 40

\* the slots somebody else may take on the calendar meanwhile
ExternalSlots == {Combine(Today0 + 1, T(18, 0))}
TightSlots == {Combine(Today0 + 1, T(18, 0)), Combine(Today0 + 8, T(18, 0))}

(***************************************************************************)
(* The parsers are pure functions of the text (parse_date also of today,   *)
(* pick_service_from_text also of the catalog): their results on the       *)
(* messages of the model are computed once and read from these tables.     *)
(***************************************************************************)
ModelDays == {DateOf(Now0 + k * TickMinutes) : k \in 0..(MaxTicks + 1)}
ModelCatalogs == {sh.services : sh \in Shops \cup {TightShop}}

NormTable == [text \in TableTexts |-> norm_text(text)]
TimeTable == [text \in TableTexts |-> parse_time(text)]
WindowTable == [text \in TableTexts |-> parse_window(text)]
FlagsTable == [text \in TableTexts |-> parse_flags(text)]
DateTable == [text \in TableTexts |-> [today \in ModelDays |-> parse_date(text, today)]]
ServiceTable ==
  [text \in TableTexts |-> [services \in ModelCatalogs |-> pick_service_from_text(services, text)]]

tlow_of(text) == IF text \in TableTexts THEN NormTable[text] ELSE norm_text(text)
time_of(text) == IF text \in TableTexts THEN TimeTable[text] ELSE parse_time(text)
window_of(text) == IF text \in TableTexts THEN WindowTable[text] ELSE parse_window(text)
flags_of(text) == IF text \in TableTexts THEN FlagsTable[text] ELSE parse_flags(text)
date_of(text, today) ==
  IF text \in TableTexts /\ today \in ModelDays THEN DateTable[text][today] ELSE parse_date(text, today)
service_of(services, text) ==
  IF text \in TableTexts /\ services \in ModelCatalogs THEN ServiceTable[text][services]
  ELSE pick_service_from_text(services, text)

CANCEL_NORM == {norm_text(w) : w \in CANCEL_WORDS}
CONFIRM_NORM == {norm_text(w) : w \in CONFIRM_WORDS}

Has(data, key) == key \in data.keys

\* a return of handle_message: the reply, after the writes made so far
Return(x, reply, writes) == [x EXCEPT !.done = TRUE, !.reply = reply, !.effs = x.effs \o writes]

ChooseData(service, slots) ==
  [EmptyData EXCEPT !.keys = {"service", "options"}, !.service = service, !.options = IsoAll(slots)]
\* the confirm payload written without its slot
ConfirmData_no_slot(service, slot_iso) ==
  [EmptyData EXCEPT !.keys = {"service"}, !.service = service]
ConfirmData(service, slot_iso) ==
  [EmptyData EXCEPT !.keys = {"service", "slot_iso"}, !.service = service, !.slot_iso = slot_iso]
PendingOf(x) ==
  [date |-> IsoDate(x.date_), time |-> IsoTime(x.exact_time), after |-> IsoTime(x.after),
   before |-> IsoTime(x.before), flags |-> x.flags]

\* the cancel block answering without the reset of line 934
H_Cancel_no_reset(x) ==
  IF x.done THEN x
  ELSE IF \E w \in CANCEL_NORM : Contains(x.tlow, w)
  THEN Return(x, "cancelled", <<>>)
  ELSE x

\* lines 932-935: a cancel word anywhere in the message
H_Cancel(x) ==
  IF x.done THEN x
  ELSE IF \E w \in CANCEL_NORM : Contains(x.tlow, w)
  THEN Return(x, "cancelled", <<ResetSession>>)
  ELSE x

\* lines 937-949: a greeting with no conversation going on
H_Greeting(x) ==
  IF x.done THEN x
  ELSE IF x.tlow \in GREETING_WORDS /\ x.state = ""
  THEN IF x.cust.exists /\ x.cust.last_service # <<>>
       THEN Return(x, "welcome_back", <<>>)
       ELSE Return(x, "welcome", <<>>)
  ELSE x

\* lines 957-981, on what the parsers of lines 952-955 and 974 gave
Parsed(x, flags, d0, time0, w, picked) ==
  LET thisWeek == flags.this_week /\ d0 = NONE
      date1 == IF thisWeek THEN DateOf(now) ELSE d0
      after1 == IF thisWeek /\ w.after = NONE /\ time0 = NONE THEN T(18, 0) ELSE w.after
      after2 == IF (Contains(x.tlow, S_verso_sera) \/ Contains(x.tlow, S_in_serata))
                   /\ after1 = NONE /\ time0 = NONE
                THEN T(18, 0) ELSE after1
      wants == \/ ContainsAny(x.tlow, BOOKING_WORDS)
               \/ date1 # NONE \/ time0 # NONE \/ after2 # NONE \/ w.before # NONE
               \/ flags.this_week \/ flags.asap
      stored == IF Has(x.data, "service") /\ x.data.service # NO_SERVICE THEN x.data.service ELSE picked
      chosen == IF stored = NO_SERVICE /\ Len(shop.services) > 0
                THEN default_service_if_single(shop.services, norm_text(shop.gender))
                ELSE stored
  IN [x EXCEPT !.flags = flags, !.date_ = date1, !.exact_time = time0, !.after = after2,
               !.before = w.before, !.wants_booking = wants, !.chosen_service = chosen]

\* lines 951-981: what the message asks for, and the service
H_Parse(x) ==
  IF x.done THEN x
  ELSE Parsed(x, flags_of(x.text), date_of(x.text, DateOf(now)), time_of(x.text), window_of(x.text),
              IF Len(shop.services) > 0 THEN service_of(shop.services, x.text) ELSE NO_SERVICE)

\* the choose block taking the first option whatever the number
H_Choose_first_option(x) ==
  IF x.done \/ x.state # "choose" THEN x
  ELSE
  LET options == IF Has(x.data, "options") THEN x.data.options ELSE <<>>
      service == IF Has(x.data, "service") /\ x.data.service # NO_SERVICE
                 THEN x.data.service ELSE x.chosen_service
      tk == Tokens(x.tlow)
      \* re.search(r"\b(\d{1,2})\b", tlow)
      Num(i) == DigitsUpTo(tk[i], 1, 2)
      im == FirstIndex(Len(tk), Num)
      idx == NumVal(tk[im]) - 1
  IN IF im # 0 /\ options # <<>> /\ 0 <= idx /\ idx < Len(options)
     THEN Return(x, "ask_confirm_choice",
                 <<SaveSession("confirm",
                               ConfirmData(service, IsoDateTime(FromIsoDateTime(options[1]))))>>)
     ELSE [x EXCEPT !.effs = Append(@, ResetSession), !.state = "", !.data = EmptyData]

\* lines 983-1010: state choose
H_Choose(x) ==
  IF x.done \/ x.state # "choose" THEN x
  ELSE
  LET options == IF Has(x.data, "options") THEN x.data.options ELSE <<>>
      service == IF Has(x.data, "service") /\ x.data.service # NO_SERVICE
                 THEN x.data.service ELSE x.chosen_service
      tk == Tokens(x.tlow)
      \* re.search(r"\b(\d{1,2})\b", tlow)
      Num(i) == DigitsUpTo(tk[i], 1, 2)
      im == FirstIndex(Len(tk), Num)
      idx == NumVal(tk[im]) - 1
  IN IF im # 0 /\ options # <<>> /\ 0 <= idx /\ idx < Len(options)
     THEN Return(x, "ask_confirm_choice",
                 <<SaveSession("confirm",
                               ConfirmData(service, IsoDateTime(FromIsoDateTime(options[idx + 1]))))>>)
     ELSE [x EXCEPT !.effs = Append(@, ResetSession), !.state = "", !.data = EmptyData]

\* lines 1022-1052: the capacity check, then the booking or the way back
\* Confirmed without the write of the customer's history
Confirmed_no_history(x, service, start, end) ==
  LET SlotTaken(alt) ==
        IF alt = <<>> THEN Return(x, "slot_taken", <<ResetSession>>)
        ELSE Return(x, "slot_taken_alternatives",
                    <<ResetSession, SaveSession("choose", ChooseData(service, alt))>>)
  IN IF ~slot_has_capacity(start, end, shop.capacity)
     THEN SlotTaken(find_slots(shop.hours, end - start, DateOf(start), NONE, NONE, NONE, 5, 7))
     ELSE Return(x, "confirmed", <<CreateEvent(start, end, service.name), ResetSession>>)

\* Confirmed without the reset of the session after the booking
Confirmed_keeps_session(x, service, start, end) ==
  LET SlotTaken(alt) ==
        IF alt = <<>> THEN Return(x, "slot_taken", <<ResetSession>>)
        ELSE Return(x, "slot_taken_alternatives",
                    <<ResetSession, SaveSession("choose", ChooseData(service, alt))>>)
  IN IF ~slot_has_capacity(start, end, shop.capacity)
     THEN SlotTaken(find_slots(shop.hours, end - start, DateOf(start), NONE, NONE, NONE, 5, 7))
     ELSE Return(x, "confirmed",
                 <<CreateEvent(start, end, service.name), UpsertCustomer(service.name)>>)

Confirmed(x, service, start, end) ==
  LET SlotTaken(alt) ==
        IF alt = <<>> THEN Return(x, "slot_taken", <<ResetSession>>)
        ELSE Return(x, "slot_taken_alternatives",
                    <<ResetSession, SaveSession("choose", ChooseData(service, alt))>>)
  IN IF ~slot_has_capacity(start, end, shop.capacity)
     THEN SlotTaken(find_slots(shop.hours, end - start, DateOf(start), NONE, NONE, NONE, 5, 7))
     ELSE Return(x, "confirmed",
                 <<CreateEvent(start, end, service.name), UpsertCustomer(service.name),
                   ResetSession>>)

\* the slot of a payload and the end of the service booked at it
ConfirmSlot(x, service, start) == Confirmed(x, service, start, start + service_duration(service))

\* H_Confirm taking every reply for the confirmation
H_Confirm_any_reply(x) ==
  IF x.done \/ x.state # "confirm" THEN x
  ELSE IF x.tlow \in CONFIRM_NORM \/ x.tlow # <<>>
  THEN IF ~Has(x.data, "slot_iso") \/ x.data.slot_iso = <<>>
          \/ ~Has(x.data, "service") \/ x.data.service = NO_SERVICE
       THEN Return(x, "lost_details", <<ResetSession>>)
       ELSE ConfirmSlot(x, x.data.service, FromIsoDateTime(x.data.slot_iso))
  ELSE [x EXCEPT !.effs = Append(@, ResetSession), !.state = "", !.data = EmptyData]

\* lines 1012-1058: state confirm
H_Confirm(x) ==
  IF x.done \/ x.state # "confirm" THEN x
  ELSE IF x.tlow \in CONFIRM_NORM
  THEN IF ~Has(x.data, "slot_iso") \/ x.data.slot_iso = <<>>
          \/ ~Has(x.data, "service") \/ x.data.service = NO_SERVICE
       THEN Return(x, "lost_details", <<ResetSession>>)
       ELSE ConfirmSlot(x, x.data.service, FromIsoDateTime(x.data.slot_iso))
  ELSE [x EXCEPT !.effs = Append(@, ResetSession), !.state = "", !.data = EmptyData]

\* lines 1060-1069: not a booking request
H_NotBooking(x) ==
  IF x.done \/ x.wants_booking THEN x
  ELSE IF x.chosen_service = NO_SERVICE /\ Len(shop.services) > 1
  THEN Return(x, "guide_with_services", <<>>)
  ELSE Return(x, "guide", <<>>)

\* the "pending" preferences of a payload, restored where the message gave none
RestorePending(x) ==
  LET p == IF Has(x.data, "pending") THEN x.data.pending ELSE NoPending
  IN [x EXCEPT
        !.date_ = IF x.date_ = NONE /\ p.date # <<>> /\ FromIsoDate(p.date) # NONE
                  THEN FromIsoDate(p.date) ELSE x.date_,
        !.exact_time = IF x.exact_time = NONE /\ p.time # <<>> THEN FromIsoTime(p.time) ELSE x.exact_time,
        !.after = IF x.after = NONE /\ p.after # <<>> THEN FromIsoTime(p.after) ELSE x.after,
        !.before = IF x.before = NONE /\ p.before # <<>> THEN FromIsoTime(p.before) ELSE x.before]

\* lines 1071-1129: the beard upsell of a men's shop
H_Upsell(x) ==
  IF x.done \/ ~(norm_text(shop.gender) = S_uomo /\ x.chosen_service # NO_SERVICE) THEN x
  ELSE
  LET chosen_name == norm_text(x.chosen_service.name)
      barba_available == has_service_with_keyword(shop.services, S_barba)
      combo == find_combo_taglio_barba(shop.services)
      done == Has(x.data, "upsell_barba_done") /\ x.data.upsell_barba_done
      r == RestorePending(x)
      wantsCombo == Contains(x.tlow, S_taglio_e_barba)
                    \/ (Contains(x.tlow, S_taglio) /\ Contains(x.tlow, S_barba))
      chosen2 == IF wantsCombo /\ combo # NO_SERVICE THEN combo ELSE x.chosen_service
  IN IF Contains(chosen_name, S_taglio) /\ barba_available /\ ~done /\ ~Contains(x.tlow, S_barba)
     THEN Return(x, "upsell_question",
                 <<SaveSession("upsell_barba",
                               [EmptyData EXCEPT !.keys = {"service", "upsell_barba_done", "pending"},
                                                 !.service = x.chosen_service,
                                                 !.upsell_barba_done = TRUE,
                                                 !.pending = PendingOf(x)])>>)
     ELSE IF x.state = "upsell_barba"
     THEN [r EXCEPT !.chosen_service = chosen2, !.state = "",
                    !.data = [EmptyData EXCEPT !.keys = {"service", "upsell_barba_done"},
                                               !.service = chosen2,
                                               !.upsell_barba_done = TRUE]]
     ELSE x

\* lines 1131-1178: no service yet and several to choose from
H_AskService(x) ==
  IF x.done \/ ~(x.chosen_service = NO_SERVICE /\ Len(shop.services) > 1) THEN x
  ELSE
  LET Ask(slots_hint) ==
        IF slots_hint # <<>>
        THEN Return(x, "hint_slots_ask_service",
                    <<SaveSession("need_service",
                                  [EmptyData EXCEPT !.keys = {"pending", "options_hint"},
                                                    !.pending = PendingOf(x),
                                                    !.options_hint = IsoAll(slots_hint)])>>)
        ELSE Return(x, "ask_service",
                    <<SaveSession("need_service",
                                  [EmptyData EXCEPT !.keys = {"pending"}, !.pending = PendingOf(x)])>>)
  IN Ask(find_slots(shop.hours, 30, Or(x.date_, DateOf(now)), x.exact_time, x.after, x.before,
                    5, Min(MAX_LOOKAHEAD_DAYS, 14)))

\* lines 1180-1210: state need_service
H_NeedService(x) ==
  IF x.done \/ x.state # "need_service" THEN x
  ELSE LET Picked(svc) ==
             IF svc = NO_SERVICE THEN Return(x, "ask_service_again", <<>>)
             ELSE [RestorePending(x) EXCEPT !.chosen_service = svc]
       IN Picked(service_of(shop.services, x.text))

\* lines 1212-1234: nothing about when, only a date, only a time or window
H_When(x) ==
  IF x.done THEN x
  ELSE
  LET svc == x.chosen_service
      hasTime == x.exact_time # NONE \/ x.after # NONE \/ x.before # NONE
      keys == {"service"} \cup (IF x.exact_time # NONE THEN {"time"} ELSE {})
                          \cup (IF x.after # NONE THEN {"after"} ELSE {})
                          \cup (IF x.before # NONE THEN {"before"} ELSE {})
  IN IF svc # NO_SERVICE /\ x.date_ = NONE /\ ~hasTime
     THEN Return(x, "ask_when",
                 <<SaveSession("need_when", [EmptyData EXCEPT !.keys = {"service"}, !.service = svc])>>)
     ELSE IF svc # NO_SERVICE /\ x.date_ # NONE /\ ~hasTime
     THEN Return(x, "ask_time",
                 <<SaveSession("need_time", [EmptyData EXCEPT !.keys = {"service", "date"},
                                               !.service = svc, !.date = IsoDate(x.date_)])>>)
     ELSE IF svc # NO_SERVICE /\ hasTime /\ x.date_ = NONE
     THEN Return(x, "ask_date",
                 <<SaveSession("need_date", [EmptyData EXCEPT !.keys = keys, !.service = svc,
                                               !.time = IsoTime(x.exact_time),
                                               !.after = IsoTime(x.after),
                                               !.before = IsoTime(x.before)])>>)
     ELSE x

\* lines 1237-1256: state need_date
H_NeedDate(x) ==
  IF x.done \/ x.state # "need_date" THEN x
  ELSE LET time2 == IF Has(x.data, "time") /\ x.data.time # <<>> /\ x.exact_time = NONE
                    THEN FromIsoTime(x.data.time) ELSE x.exact_time
           after2 == IF Has(x.data, "after") /\ x.data.after # <<>> /\ x.after = NONE
                     THEN FromIsoTime(x.data.after) ELSE x.after
           before2 == IF Has(x.data, "before") /\ x.data.before # <<>> /\ x.before = NONE
                      THEN FromIsoTime(x.data.before) ELSE x.before
           Dated(d) ==
             IF d = NONE THEN Return(x, "ask_day", <<>>)
             ELSE [x EXCEPT !.date_ = d, !.exact_time = time2, !.after = after2, !.before = before2]
       IN Dated(date_of(x.text, DateOf(now)))

\* lines 1258-1270: state need_time
H_NeedTime(x) ==
  IF x.done \/ x.state # "need_time" THEN x
  ELSE LET StoredDate(d) == IF d # NONE THEN d ELSE x.date_
           date2 == IF Has(x.data, "date") /\ x.data.date # <<>>
                    THEN StoredDate(FromIsoDate(x.data.date)) ELSE x.date_
           Timed(time2, after2, before2) ==
             IF time2 = NONE /\ after2 = NONE /\ before2 = NONE
             THEN Return(x, "ask_valid_time", <<>>)
             ELSE [x EXCEPT !.date_ = date2, !.exact_time = time2, !.after = after2, !.before = before2]
           Windowed(w) ==
             Timed(IF x.exact_time = NONE THEN time_of(x.text) ELSE x.exact_time,
                   Or(x.after, w.after), Or(x.before, w.before))
       IN Windowed(window_of(x.text))

\* lines 1272-1276: the service when none was chosen
H_FallbackService(x) ==
  IF x.done \/ x.chosen_service # NO_SERVICE THEN x
  ELSE [x EXCEPT !.chosen_service =
           IF Len(shop.services) > 0 THEN shop.services[1] ELSE FALLBACK_SERVICE]

\* lines 1281-1316: date and exact time: the exact slot, else the alternatives
BookExact(x, dur, slots) ==
  LET Alternatives(alt) ==
        IF alt = <<>> THEN Return(x, "no_availability_at_time", <<>>)
        ELSE Return(x, "offer_alternatives", <<SaveSession("choose", ChooseData(x.chosen_service, alt))>>)
  IN IF slots # <<>> /\ DateOf(slots[1]) = x.date_ /\ TimeOf(slots[1]) = x.exact_time
     THEN Return(x, "ask_confirm",
                 <<SaveSession("confirm", ConfirmData(x.chosen_service, IsoDateTime(slots[1])))>>)
     ELSE Alternatives(pick_better_alternatives(shop.hours, dur, x.date_, x.exact_time, NONE, NONE, 5))

\* the safety net of lines 1330-1336 and 1363-1369: the first slots free at all
FirstAvailable(x, fallback, none_found) ==
  IF fallback = <<>> THEN Return(x, none_found, <<>>)
  ELSE Return(x, "offer_first_available",
              <<SaveSession("choose", ChooseData(x.chosen_service, fallback))>>)

\* lines 1321-1339: date and window
BookWindow(x, dur, slots) ==
  IF slots = <<>>
  THEN FirstAvailable(x, find_slots(shop.hours, dur, x.date_, NONE, NONE, NONE, 5, 7),
                      "no_availability_in_window")
  ELSE Return(x, "offer_slots", <<SaveSession("choose", ChooseData(x.chosen_service, slots))>>)

\* lines 1344-1372: generic request
BookGeneric(x, dur, slots) ==
  IF slots = <<>>
  THEN FirstAvailable(x, find_slots(shop.hours, dur, DateOf(now), NONE, NONE, NONE, 5, 7),
                      "no_availability_soon")
  ELSE Return(x, "offer_next_slots", <<SaveSession("choose", ChooseData(x.chosen_service, slots))>>)

\* lines 1278-1372: the search and the offer
H_Booking(x) ==
  IF x.done THEN x
  ELSE
  LET dur == service_duration(x.chosen_service)
      max0 == Min(MAX_LOOKAHEAD_DAYS, 14)
      today == DateOf(now)
  IN IF x.date_ # NONE /\ x.exact_time # NONE
     THEN BookExact(x, dur, find_slots(shop.hours, dur, x.date_, x.exact_time, NONE, NONE, 5, max0))
     ELSE IF x.date_ # NONE /\ (x.after # NONE \/ x.before # NONE) /\ x.exact_time = NONE
     THEN BookWindow(x, dur, find_slots(shop.hours, dur, x.date_, NONE, x.after, x.before, 5, max0))
     ELSE BookGeneric(x, dur,
                      find_slots(shop.hours, dur, Or(x.date_, today), NONE, x.after, x.before, 5,
                                 IF x.flags.this_week THEN Min(max0, 6 - Weekday(today)) ELSE max0))

\* lines 922-930: the session as the call sees it; an expired one is reset
Start(sess, cust, text) ==
  LET expired == sess.exists /\ session_expired(sess)
      live == sess.exists /\ ~expired
  IN [text |-> text,
      tlow |-> tlow_of(text),
      cust |-> cust,
      state |-> IF live THEN sess.state ELSE "",
      data |-> IF live THEN sess.data ELSE EmptyData,
      effs |-> IF expired THEN <<ResetSession>> ELSE <<>>,
      done |-> FALSE, reply |-> "",
      flags |-> NoFlags, date_ |-> NONE, exact_time |-> NONE, after |-> NONE,
      before |-> NONE, wants_booking |-> FALSE, chosen_service |-> NO_SERVICE]

\* what a call leaves behind: the reply and the writes made, in order
Outcome(x) == [reply |-> x.reply, effs |-> x.effs]

\* lines 908-1372: the blocks above in the order of the function; sess is the
\* customer's row as get_session returns it, cust the row get_customer returns
handle_message(sess, cust, text) ==
  Outcome(H_Booking(H_FallbackService(H_NeedTime(H_NeedDate(H_When(H_NeedService(
    H_AskService(H_Upsell(H_NotBooking(H_Confirm(H_Choose(H_Parse(
      H_Greeting(H_Cancel(Start(sess, cust, text))))))))))))))))

(***************************************************************************)
(* Sequential turns: one handle_message call at a time                     *)
(***************************************************************************)
Store == [sessions |-> sessions, customers |-> customers, events |-> events]

NoTurn == [op |-> "init", c |-> "", text |-> <<>>, reply |-> "",
           sess |-> NoSession, cust |-> NoCustomer, events |-> <<>>]

Init ==
  /\ shop \in Shops
  /\ now = Now0
  /\ sessions = [c \in AllCustomers |-> NoSession]
  /\ customers = [c \in AllCustomers |-> NoCustomer]
  /\ events = <<>>
  /\ last = NoTurn
  /\ pc = <<>>
  /\ loc = <<>>

\* the store and the record of the turn once the call made the writes of r
Served(c, text, r, st) ==
  /\ Len(st.events) <= MaxEvents
  /\ sessions' = st.sessions
  /\ customers' = st.customers
  /\ events' = st.events
  /\ last' = [op |-> "turn", c |-> c, text |-> text, reply |-> r.reply,
              sess |-> sessions[c], cust |-> customers[c], events |-> events]
  /\ UNCHANGED <<shop, now, pc, loc>>

Answered(c, text, r) == Served(c, text, r, ApplyWrites(Store, c, r.effs, Len(r.effs)))

\* a whole call handle_message(shop, shop_number, c, text)
Turn(c, text) == Answered(c, text, handle_message(sessions[c], customers[c], text))

\* time passes
Tick ==
  /\ now + TickMinutes <= Now0 + MaxTicks * TickMinutes
  /\ now' = now + TickMinutes
  /\ last' = [NoTurn EXCEPT !.op = "tick"]
  /\ UNCHANGED <<shop, sessions, customers, events, pc, loc>>

\* somebody books a slot on the calendar, outside the bot
ExternalBooking(start) ==
  /\ Len(events) < MaxEvents
  /\ ~\E i \in 1..Len(events) : events[i].kind = "external" /\ events[i].start = start
  /\ events' = Append(events, [start |-> start, end |-> start + 30, phone |-> "",
                               service |-> <<>>, kind |-> "external"])
  /\ last' = [NoTurn EXCEPT !.op = "external"]
  /\ UNCHANGED <<shop, now, sessions, customers, pc, loc>>

Next ==
  \/ \E c \in Customers, text \in Messages : Turn(c, text)
  \/ Tick
  \/ \E start \in ExternalSlots : ExternalBooking(start)

Spec == Init /\ [][Next]_vars

(***************************************************************************)
(* The tight shop: the calendar can fill up, and the search of the confirm *)
(* block then finds one alternative, or none.                              *)
(***************************************************************************)
InitTight ==
  /\ shop = TightShop
  /\ now = Now0
  /\ sessions = [c \in AllCustomers |-> NoSession]
  /\ customers = [c \in AllCustomers |-> NoCustomer]
  /\ events = <<>>
  /\ last = NoTurn
  /\ pc = <<>>
  /\ loc = <<>>

NextTight ==
  \/ \E c \in Customers, text \in Messages : Turn(c, text)
  \/ Tick
  \/ \E start \in TightSlots : ExternalBooking(start)

SpecTight == InitTight /\ [][NextTight]_vars

(***************************************************************************)
(* find_slots on its own: the shop, the clock and the calendar are drawn   *)
(* from small sets, and every call gets a duration, a date, a time and a   *)
(* window.                                                                 *)
(***************************************************************************)
\* open Monday 17:00-19:00 and 22:00-23:30, Tuesday 17:00-19:00
LateHours ==
  [w \in 0..6 |-> IF w = 0 THEN << <<T(17, 0), T(19, 0)>>, <<T(22, 0), T(23, 30)>> >>
                  ELSE IF w = 1 THEN << <<T(17, 0), T(19, 0)>> >> ELSE <<>>]

\* the capacity cell of the shops sheet holds any integer: int(...) at line 602
SearchShops ==
  {[gender |-> S_unisex, capacity |-> capacity, slot_minutes |-> 30, hours |-> LateHours,
    services |-> <<Service(N_Taglio, 30)>>] : capacity \in {0, 1, 2}}

\* Monday before opening, at opening time to the minute, and during opening
SearchNows == {Now0, Combine(Today0, T(17, 0)), Combine(Today0, T(17, 40))}

Busy(start, end) == [start |-> start, end |-> end, phone |-> "", service |-> <<>>, kind |-> "external"]

\* nothing, one event or two events on Monday 17:30-18:00, Tuesday 18:00
SearchCalendars ==
  {<<>>,
   <<Busy(Combine(Today0, T(17, 30)), Combine(Today0, T(18, 0)))>>,
   <<Busy(Combine(Today0, T(17, 30)), Combine(Today0, T(18, 0))),
     Busy(Combine(Today0, T(17, 30)), Combine(Today0, T(18, 0)))>>,
   <<Busy(Combine(Today0 + 1, T(18, 0)), Combine(Today0 + 1, T(18, 30)))>>}

SearchDurations == {30, 90}
\* none, the Monday before, today, tomorrow
SearchDates == {NONE, Today0 - 7, Today0, Today0 + 1}
SearchTimes == {NONE, T(16, 0), T(17, 0), T(17, 30), T(18, 30), T(23, 0)}
SearchBounds == {NONE, T(18, 0)}

InitSearch ==
  /\ shop \in SearchShops
  /\ now \in SearchNows
  /\ sessions = [c \in AllCustomers |-> NoSession]
  /\ customers = [c \in AllCustomers |-> NoCustomer]
  /\ events \in SearchCalendars
  /\ last = NoTurn
  /\ pc = <<>>
  /\ loc = <<>>

\* one call of find_slots with the defaults of its caller (limit 5)
Search(duration, preferred_date, exact_time, after, before) ==
  /\ last' = [op |-> "search", duration |-> duration, preferred_date |-> preferred_date,
              exact_time |-> exact_time, after |-> after, before |-> before,
              result |-> find_slots(shop.hours, duration, preferred_date, exact_time,
                                    after, before, 5, MAX_LOOKAHEAD_DAYS)]
  /\ UNCHANGED <<shop, now, sessions, customers, events, pc, loc>>

NextSearch ==
  \E duration \in SearchDurations, preferred_date \in SearchDates, exact_time \in SearchTimes,
     after \in SearchBounds, before \in SearchBounds :
        Search(duration, preferred_date, exact_time, after, before)

SpecSearch == InitSearch /\ [][NextSearch]_vars

(***************************************************************************)
(* Failing calls.  handle_message catches nothing: when a request to the   *)
(* sheet or to the calendar raises, the writes made so far stay, the rest  *)
(* of the function does not run and the route answers with an error        *)
(* (lines 1402-1418).  The customer then sends the message again.          *)
(***************************************************************************)
\* the call raised at its write number n + 1: st is the store after n writes
Broken(c, text, n, st) ==
  /\ Len(st.events) <= MaxEvents
  /\ sessions' = st.sessions
  /\ customers' = st.customers
  /\ events' = st.events
  /\ last' = [op |-> "failed", c |-> c, text |-> text, reply |-> "server_error",
              sess |-> sessions[c], cust |-> customers[c], events |-> events]
  /\ loc' = [applied |-> n]
  /\ UNCHANGED <<shop, now, pc>>

Failing(c, text, r) ==
  \E n \in 0..(Len(r.effs) - 1) : Broken(c, text, n, ApplyWrites(Store, c, r.effs, n))

\* a call in which a write raises
FailedTurn(c, text) == Failing(c, text, handle_message(sessions[c], customers[c], text))

\* the store and the record of the turn once the repeated call made the
\* writes of r
Retried(c, text, r, st) ==
  /\ Len(st.events) <= MaxEvents
  /\ sessions' = st.sessions
  /\ customers' = st.customers
  /\ events' = st.events
  /\ last' = [op |-> "retry", c |-> c, text |-> text, reply |-> r.reply,
              sess |-> sessions[c], cust |-> customers[c], events |-> events]
  /\ UNCHANGED <<shop, now, pc, loc>>

Repeated(c, text, r) == Retried(c, text, r, ApplyWrites(Store, c, r.effs, Len(r.effs)))

\* the customer sends again the message of the call that failed
Retry ==
  /\ last.op = "failed"
  /\ Repeated(last.c, last.text, handle_message(sessions[last.c], customers[last.c], last.text))

NextFail ==
  \/ \E c \in Customers, text \in Messages : Turn(c, text)
  \/ \E c \in Customers, text \in Messages : FailedTurn(c, text)
  \/ Retry

SpecFail == Init /\ [][NextFail]_vars

(***************************************************************************)
(* Stored sessions of every age.  The customer's row is one the program    *)
(* wrote some time ago (or one whose updated_at cell is empty): a turn     *)
(* finds it just inside the TTL, just outside, or fresh.                   *)
(***************************************************************************)
StoredAges == {0, SESSION_TTL_MINUTES, SESSION_TTL_MINUTES + 1}

StoredPayloads(sh) ==
  {[state |-> "need_when",
    data |-> [EmptyData EXCEPT !.keys = {"service"}, !.service = sh.services[1]]],
   [state |-> "need_time",
    data |-> [EmptyData EXCEPT !.keys = {"service", "date"}, !.service = sh.services[1],
                               !.date = IsoDate(Today0 + 1)]],
   [state |-> "choose",
    data |-> ChooseData(sh.services[1],
                        <<Combine(Today0 + 1, T(17, 0)), Combine(Today0 + 1, T(17, 30))>>)],
   [state |-> "confirm",
    data |-> ConfirmData(sh.services[1], IsoDateTime(Combine(Today0 + 1, T(18, 0))))]}

StoredSessions(sh) ==
  {[exists |-> TRUE, state |-> p.state, data |-> p.data, updated_at |-> at] :
     p \in StoredPayloads(sh), at \in {Now0 - a : a \in StoredAges} \cup {NONE}}

InitTTL ==
  /\ shop \in Shops
  /\ now = Now0
  /\ \E stored \in StoredSessions(shop) :
        sessions = [c \in AllCustomers |-> IF c \in Customers THEN stored ELSE NoSession]
  /\ customers = [c \in AllCustomers |-> NoCustomer]
  /\ events = <<>>
  /\ last = NoTurn
  /\ pc = <<>>
  /\ loc = <<>>

NextTTL == \E c \in Customers, text \in Messages : Turn(c, text)

SpecTTL == InitTTL /\ [][NextTTL]_vars

(***************************************************************************)
(* The dialogues in which the customer answers an offer with a new day or  *)
(* time instead of a number.                                               *)
(***************************************************************************)
NextChoose ==
  \/ \E c \in Customers, text \in ChooseMessages : Turn(c, text)
  \/ Tick

SpecChoose == Init /\ [][NextChoose]_vars

(***************************************************************************)
(* Concurrent deliveries.  The web server runs the calls of different      *)
(* requests at the same time and handle_message takes no lock: a call      *)
(* reads the session row (line 922), decides on what it read and on the    *)
(* calendar and the customer row as they are then, and makes its writes    *)
(* one request after the other; the steps of two calls interleave.  The    *)
(* shop is the one with a single service, where "domani alle 18" alone     *)
(* brings a customer to the confirmation.                                  *)
(***************************************************************************)
Procs == {1, 2}

RaceMessages == {M_domani_alle_18, M_OK}

NoCall == [c |-> "", text |-> <<>>, sess |-> NoSession, effs |-> <<>>, created |-> FALSE]

InitRace ==
  /\ shop = TightShop
  /\ now = Now0
  /\ sessions = [c \in AllCustomers |-> NoSession]
  /\ customers = [c \in AllCustomers |-> NoCustomer]
  /\ events = <<>>
  /\ last = NoTurn
  /\ pc = [p \in Procs |-> "idle"]
  /\ loc = [p \in Procs |-> NoCall]

\* a request arrives and the call reads the customer's session (lines 908-930)
Receive(p, c, text) ==
  /\ pc[p] = "idle"
  /\ pc' = [pc EXCEPT ![p] = "decide"]
  /\ loc' = [loc EXCEPT ![p] = [NoCall EXCEPT !.c = c, !.text = text, !.sess = sessions[c]]]
  /\ UNCHANGED <<shop, now, sessions, customers, events, last>>

\* the call runs its blocks on the session it read (lines 932-1372): the
\* capacity check and the searches read the calendar as it is now
Decide(p) ==
  LET Decided(r) ==
        /\ loc' = [loc EXCEPT ![p].effs = r.effs]
        /\ pc' = [pc EXCEPT ![p] = IF r.effs = <<>> THEN "idle" ELSE "write"]
  IN /\ pc[p] = "decide"
     /\ Decided(handle_message(loc[p].sess, customers[loc[p].c], loc[p].text))
     /\ UNCHANGED <<shop, now, sessions, customers, events, last>>

\* the call makes its next write: save_session, create_event or upsert_customer
Write(p) ==
  /\ pc[p] = "write"
  /\ LET st == ApplyWrites(Store, loc[p].c, loc[p].effs, 1)
         rest == Tail(loc[p].effs)
     IN /\ Len(st.events) <= MaxEvents
        /\ sessions' = st.sessions
        /\ customers' = st.customers
        /\ events' = st.events
        /\ loc' = [loc EXCEPT ![p].effs = rest,
                              ![p].created = @ \/ Head(loc[p].effs).op = "create_event"]
        /\ pc' = [pc EXCEPT ![p] = IF rest = <<>> THEN "idle" ELSE "write"]
  /\ UNCHANGED <<shop, now, last>>

NextRace ==
  \E p \in Procs :
    \/ \E c \in AllCustomers, text \in RaceMessages : Receive(p, c, text)
    \/ Decide(p)
    \/ Write(p)

SpecRace == InitRace /\ [][NextRace]_vars

(***************************************************************************)
(* A closure on the calendar.  The owner marks a closed day with an event  *)
(* titled "closed"; events().list returns it like any other event, and     *)
(* count_overlaps (lines 527-537) counts the items without reading them.   *)
(***************************************************************************)
Closure(start, end) ==
  [start |-> start, end |-> end, phone |-> "", service |-> <<>>, kind |-> "closure"]

\* the shop is closed on Tuesday afternoon
InitClosed ==
  /\ shop \in Shops
  /\ now = Now0
  /\ sessions = [c \in AllCustomers |-> NoSession]
  /\ customers = [c \in AllCustomers |-> NoCustomer]
  /\ events = <<Closure(Combine(Today0 + 1, T(17, 0)), Combine(Today0 + 1, T(19, 0)))>>
  /\ last = NoTurn
  /\ pc = <<>>
  /\ loc = <<>>

NextClosed == \E c \in Customers, text \in Messages : Turn(c, text)

SpecClosed == InitClosed /\ [][NextClosed]_vars

(***************************************************************************)
(* A full slot today.  Monday 18:00 is taken as many times as the shop has *)
(* places, and the customers ask for that time.                            *)
(***************************************************************************)
InitToday ==
  /\ shop \in Shops
  /\ now = Now0
  /\ sessions = [c \in AllCustomers |-> NoSession]
  /\ customers = [c \in AllCustomers |-> NoCustomer]
  /\ events = [i \in 1..shop.capacity |->
                 Busy(Combine(Today0, T(18, 0)), Combine(Today0, T(18, 30)))]
  /\ last = NoTurn
  /\ pc = <<>>
  /\ loc = <<>>

NextToday ==
  \/ \E c \in Customers, text \in TodayMessages : Turn(c, text)
  \/ Tick

SpecToday == InitToday /\ [][NextToday]_vars

\* the dialogues of customers who greet before and after a booking
NextGreeting == \E c \in Customers, text \in GreetingMessages : Turn(c, text)

SpecGreeting == Init /\ [][NextGreeting]_vars

(***************************************************************************)
(* A shop whose services are all inactive: load_services (lines 421-431)   *)
(* drops the rows with active = false and returns an empty catalog.        *)
(***************************************************************************)
EmptyShop(gender) ==
  [gender |-> gender, capacity |-> 1, slot_minutes |-> 30, hours |-> Hours, services |-> <<>>]

InitNoService ==
  /\ shop \in {EmptyShop(S_unisex), EmptyShop(S_uomo)}
  /\ now = Now0
  /\ sessions = [c \in AllCustomers |-> NoSession]
  /\ customers = [c \in AllCustomers |-> NoCustomer]
  /\ events = <<>>
  /\ last = NoTurn
  /\ pc = <<>>
  /\ loc = <<>>

NextNoService == \E c \in Customers, text \in Messages : Turn(c, text)

SpecNoService == InitNoService /\ [][NextNoService]_vars

(***************************************************************************)
(* The rows of the sheet.  In this specification `sessions` and            *)
(* `customers` are the two tabs as the sheet holds them, lists of rows     *)
(* with their phone column, and two calls run at once: each write of a     *)
(* call is an upsert_row, which first looks its row up (_find_row_index,   *)
(* lines 330-351) and then appends a row or updates the row at that index  *)
(* (lines 378-387).                                                        *)
(***************************************************************************)
P_3912345678 == <<"3","9","1","2","3","4","5","6","7","8">>
P_12345678 == <<"1","2","3","4","5","6","7","8">>
P_3331112222 == <<"3","3","3","1","1","1","2","2","2","2">>

\* three customers of the shop: three different numbers
Phones == {P_3912345678, P_12345678, P_3331112222}

RowMessages == {M_domani_alle_18, M_OK}

RECURSIVE LStripZeros(_)
LStripZeros(s) == IF s # <<>> /\ Head(s) = "0" THEN LStripZeros(Tail(s)) ELSE s

\* lines 99-106: the digits of the number without the leading zeros
norm_phone(p) ==
  LET digits == SelectSeq(p, IsDigit)
  IN IF LStripZeros(digits) = <<>> THEN digits ELSE LStripZeros(digits)

\* lines 109-120: equal numbers, or equal once one of them loses a leading 39
phone_matches(a, b) ==
  LET da == norm_phone(a)
      db == norm_phone(b)
      Has39(d) == Len(d) >= 2 /\ d[1] = "3" /\ d[2] = "9"
  IN IF da = <<>> \/ db = <<>> THEN FALSE
     ELSE \/ da = db
          \/ Has39(da) /\ SubSeq(da, 3, Len(da)) = db
          \/ Has39(db) /\ SubSeq(db, 3, Len(db)) = da

\* the index of the first row of the tab the key matches, NONE when none does
_find_row_index(rows, customer_phone) ==
  IF \E i \in 1..Len(rows) : phone_matches(customer_phone, rows[i].phone)
  THEN CHOOSE i \in 1..Len(rows) :
         /\ phone_matches(customer_phone, rows[i].phone)
         /\ \A j \in 1..(i - 1) : ~phone_matches(customer_phone, rows[j].phone)
  ELSE NONE

\* get_session and get_customer: the first row the phone matches
get_session(rows, customer_phone) ==
  IF _find_row_index(rows, customer_phone) = NONE THEN NoSession
  ELSE [exists |-> TRUE,
        state |-> rows[_find_row_index(rows, customer_phone)].state,
        data |-> rows[_find_row_index(rows, customer_phone)].data,
        updated_at |-> rows[_find_row_index(rows, customer_phone)].updated_at]

get_customer(rows, customer_phone) ==
  IF _find_row_index(rows, customer_phone) = NONE THEN NoCustomer
  ELSE [exists |-> TRUE,
        last_service |-> rows[_find_row_index(rows, customer_phone)].last_service,
        total_visits |-> rows[_find_row_index(rows, customer_phone)].total_visits]

\* upsert_row once the index is known: the whole row is written, phone included
upsert_row(rows, idx, row) == IF idx = NONE THEN Append(rows, row) ELSE [rows EXCEPT ![idx] = row]

\* the calls one process handles in a run of the model
MaxCalls == 2

NoRowCall ==
  [c |-> <<>>, text |-> <<>>, sess |-> NoSession, effs |-> <<>>, idx |-> NONE, total |-> 0,
   calls |-> 0]

InitRows ==
  /\ shop = TightShop
  /\ now = Now0
  /\ sessions = <<>>
  /\ customers = <<>>
  /\ events = <<>>
  /\ last = NoTurn
  /\ pc = [p \in Procs |-> "idle"]
  /\ loc = [p \in Procs |-> NoRowCall]

\* where a call goes for its next write: create_event looks nothing up,
\* upsert_customer first reads the visits the customer has
NextWrite(effs) ==
  IF effs = <<>> THEN "idle"
  ELSE IF Head(effs).op = "create_event" THEN "put"
  ELSE IF Head(effs).op = "upsert_customer" THEN "count"
  ELSE "find"

\* a request arrives and the call reads the customer's session
RowReceive(p, c, text) ==
  /\ pc[p] = "idle"
  /\ loc[p].calls < MaxCalls
  /\ pc' = [pc EXCEPT ![p] = "decide"]
  /\ loc' = [loc EXCEPT ![p] = [NoRowCall EXCEPT !.c = c, !.text = text,
                                                 !.sess = get_session(sessions, c),
                                                 !.calls = loc[p].calls + 1]]
  /\ UNCHANGED <<shop, now, sessions, customers, events, last>>

\* the call runs its blocks on the session it read
RowDecide(p) ==
  LET Decided(r) ==
        /\ loc' = [loc EXCEPT ![p].effs = r.effs]
        /\ pc' = [pc EXCEPT ![p] = NextWrite(r.effs)]
  IN /\ pc[p] = "decide"
     /\ Decided(handle_message(loc[p].sess, get_customer(customers, loc[p].c), loc[p].text))
     /\ UNCHANGED <<shop, now, sessions, customers, events, last>>

\* upsert_customer reads the visits of the customer (lines 451-458)
RowCount(p) ==
  /\ pc[p] = "count"
  /\ loc' = [loc EXCEPT ![p].total = get_customer(customers, loc[p].c).total_visits + 1]
  /\ pc' = [pc EXCEPT ![p] = "find"]
  /\ UNCHANGED <<shop, now, sessions, customers, events, last>>

\* upsert_row looks the row up
RowFind(p) ==
  /\ pc[p] = "find"
  /\ loc' = [loc EXCEPT ![p].idx =
               IF Head(loc[p].effs).op = "save_session"
               THEN _find_row_index(sessions, loc[p].c)
               ELSE _find_row_index(customers, loc[p].c)]
  /\ pc' = [pc EXCEPT ![p] = "put"]
  /\ UNCHANGED <<shop, now, sessions, customers, events, last>>

\* the write itself: the row appended or updated, or the event inserted
RowPut(p) ==
  /\ pc[p] = "put"
  /\ LET e == Head(loc[p].effs)
     IN /\ e.op = "create_event" => Len(events) < MaxEvents
        /\ sessions' = IF e.op = "save_session"
                       THEN upsert_row(sessions, loc[p].idx,
                                       [phone |-> norm_phone(loc[p].c), state |-> e.state,
                                        data |-> e.data, updated_at |-> now])
                       ELSE sessions
        /\ customers' = IF e.op = "upsert_customer"
                        THEN upsert_row(customers, loc[p].idx,
                                        [phone |-> norm_phone(loc[p].c), last_service |-> e.service,
                                         total_visits |-> loc[p].total])
                        ELSE customers
        /\ events' = IF e.op = "create_event"
                     THEN create_event(events, e.start, e.end, loc[p].c, e.service)
                     ELSE events
  /\ last' = [op |-> "put", c |-> loc[p].c, sessions |-> sessions, customers |-> customers]
  /\ loc' = [loc EXCEPT ![p].effs = Tail(loc[p].effs), ![p].idx = NONE]
  /\ pc' = [pc EXCEPT ![p] = NextWrite(Tail(loc[p].effs))]
  /\ UNCHANGED <<shop, now>>

NextRows ==
  \E p \in Procs :
    \/ \E c \in Phones, text \in RowMessages : RowReceive(p, c, text)
    \/ RowDecide(p)
    \/ RowCount(p)
    \/ RowFind(p)
    \/ RowPut(p)

SpecRows == InitRows /\ [][NextRows]_vars

(***************************************************************************)
(* parse_date on its own: today is drawn from three weeks around the end   *)
(* of the year, the text from the weekday names in all the forms of        *)
(* WEEKDAYS_IT, alone, capitalised and inside a sentence.                  *)
(***************************************************************************)
\* each text with the weekday it names (Monday = 0)
WeekdayTexts ==
  {<<S_lunedi, 0>>, <<S_lun, 0>>, <<S_lunedix, 0>>,
   <<S_martedi, 1>>, <<S_mar, 1>>, <<S_martedix, 1>>,
   <<S_mercoledi, 2>>, <<S_mer, 2>>, <<S_mercoledix, 2>>,
   <<S_giovedi, 3>>, <<S_gio, 3>>, <<S_giovedix, 3>>, <<M_Giovedi, 3>>,
   <<S_venerdi, 4>>, <<S_ven, 4>>, <<S_venerdix, 4>>, <<M_venerdi_alle_18, 4>>,
   <<S_sabato, 5>>, <<S_sab, 5>>, <<M_sabato_mattina, 5>>,
   <<S_domenica, 6>>, <<S_dom, 6>>}

\* Monday 16 December 2024 to Sunday 5 January 2025
DateSpan == 20

DateDays == {MakeDate(2024, 12, 16) + k : k \in 0..DateSpan}

InitDate ==
  /\ shop = TightShop
  /\ now \in {Combine(d, T(16, 40)) : d \in DateDays}
  /\ sessions = [c \in AllCustomers |-> NoSession]
  /\ customers = [c \in AllCustomers |-> NoCustomer]
  /\ events = <<>>
  /\ last = NoTurn
  /\ pc = <<>>
  /\ loc = <<>>

\* one call of parse_date on a text that names weekday wd
ParseDate(text, wd) ==
  /\ last' = [op |-> "parse_date", text |-> text, weekday |-> wd,
              result |-> parse_date(text, DateOf(now))]
  /\ UNCHANGED <<shop, now, sessions, customers, events, pc, loc>>

NextDate == \E tw \in WeekdayTexts : ParseDate(tw[1], tw[2])

SpecDate == InitDate /\ [][NextDate]_vars

(***************************************************************************)
(* parse_time and parse_window on their own.  The texts are put together   *)
(* from a cue, an hour and minutes in each of the written forms, and from  *)
(* an explicit bound and a day part in both orders; each text carries the  *)
(* hour and minutes it states.                                             *)
(***************************************************************************)
Spaced(a, b) == IF a = <<>> THEN b ELSE a \o <<" ">> \o b

\* hours as written, with the hour they state
HourTexts ==
  {<< <<"7">>, 7 >>, << <<"0","9">>, 9 >>, << <<"1","0">>, 10 >>,
   << <<"1","8">>, 18 >>, << <<"2","3">>, 23 >>}

\* minutes as written, with the minutes they state
MinuteTexts == {<< <<"0","5">>, 5 >>, << <<"1","5">>, 15 >>, << <<"3","0">>, 30 >>}

\* what may stand before the time; the empty cue is no cue
TimeCues == {<<>>, S_alle, S_ore, Spaced(S_verso, S_le), Spaced(S_domani, S_alle)}

\* the written forms of a clock time: [text, hour, minute, form]
TimeForm(cue, h, m, form) ==
  [text |-> Spaced(cue, IF form = "HH:MM" THEN h[1] \o <<":">> \o m[1]
                        ELSE IF form = "HH.MM" THEN h[1] \o <<".">> \o m[1]
                        ELSE IF form = "HHMM" THEN h[1] \o m[1]
                        ELSE h[1]),
   hour |-> h[2], minute |-> IF form = "HH" THEN 0 ELSE m[2], form |-> form]

TimeTexts ==
  {TimeForm(cue, h, m, form) :
     cue \in TimeCues, h \in HourTexts, m \in MinuteTexts, form \in {"HH:MM", "HH.MM"}}
  \cup {TimeForm(cue, h, m, "HHMM") :
          cue \in TimeCues, h \in {x \in HourTexts : Len(x[1]) = 2}, m \in MinuteTexts}
  \cup {TimeForm(cue, h, << <<>>, 0 >>, "HH") : cue \in TimeCues \ {<<>>}, h \in HourTexts}

\* the day parts with their default window
DaypartTexts ==
  {<<S_mattina, T(9, 0), T(12, 0)>>, <<S_pomeriggio, T(14, 0), T(19, 0)>>,
   <<S_sera, T(17, 30), T(22, 0)>>}

BoundHours == {<< <<"8">>, 8 >>, << <<"1","1">>, 11 >>, << <<"1","6">>, 16 >>, << <<"2","0">>, 20 >>}

\* an explicit bound on one side and a day part, in both orders
WindowTexts ==
  {[text |-> IF first THEN Spaced(Spaced(Spaced(w[1], w[2]), h[1]), d[1])
             ELSE Spaced(d[1], Spaced(Spaced(w[1], w[2]), h[1])),
    side |-> w[3], bound |-> T(h[2], 0), lo |-> d[2], hi |-> d[3]] :
     w \in {<<S_dopo, S_le, "after">>, <<S_prima, S_delle, "before">>},
     h \in BoundHours, d \in DaypartTexts, first \in BOOLEAN}

InitParse ==
  /\ shop = TightShop
  /\ now = Now0
  /\ sessions = [c \in AllCustomers |-> NoSession]
  /\ customers = [c \in AllCustomers |-> NoCustomer]
  /\ events = <<>>
  /\ last = NoTurn
  /\ pc = <<>>
  /\ loc = <<>>

\* one call of parse_time on a text that states a clock time
ParseTime(x) ==
  /\ last' = [op |-> "parse_time", text |-> x.text, hour |-> x.hour,
              minute |-> x.minute, form |-> x.form, result |-> parse_time(x.text)]
  /\ UNCHANGED <<shop, now, sessions, customers, events, pc, loc>>

\* one call of parse_window on a text with an explicit bound and a day part
ParseWindow(x) ==
  /\ last' = [op |-> "parse_window", text |-> x.text, side |-> x.side,
              bound |-> x.bound, lo |-> x.lo, hi |-> x.hi,
              result |-> parse_window(x.text)]
  /\ UNCHANGED <<shop, now, sessions, customers, events, pc, loc>>

NextParse ==
  \/ \E x \in TimeTexts : ParseTime(x)
  \/ \E x \in WindowTexts : ParseWindow(x)

SpecParse == InitParse /\ [][NextParse]_vars

(***************************************************************************)
(* The tab cache.  load_tab keeps the rows of a tab in _CACHE for          *)
(* CACHE_TTL_SECONDS (lines 75-93, 287-316); upsert_row writes the sheet   *)
(* and then drops the entry (line 389).  Calls of different customers run  *)
(* side by side in one process and may be switched at each request to the  *)
(* sheet; the calls of one customer follow one another.  `sessions` is the *)
(* sheet, loc.cache the entry "tab:sessions" of _CACHE, loc.call the       *)
(* locals of each call.                                                    *)
(***************************************************************************)
NoRows == [c \in AllCustomers |-> NoSession]

\* _CACHE without the entry of the tab
EmptyCache == [set |-> FALSE, fresh |-> FALSE, data |-> NoRows]

NoCacheCall ==
  [c |-> "", text |-> <<>>, rows |-> NoRows, sess |-> NoSession, effs |-> <<>>, calls |-> 0]

\* cache_get: the rows of the entry, when there is one not older than the TTL
cache_get(cache) ==
  IF cache.set /\ cache.fresh THEN [hit |-> TRUE, data |-> cache.data]
  ELSE [hit |-> FALSE, data |-> NoRows]

\* cache_set: the entry holds the rows, stamped now
cache_set(data) == [set |-> TRUE, fresh |-> TRUE, data |-> data]

InitCache ==
  /\ shop = TightShop
  /\ now = Now0
  /\ sessions = NoRows
  /\ customers = [c \in AllCustomers |-> NoCustomer]
  /\ events = <<>>
  /\ last = NoTurn
  /\ pc = [p \in Procs |-> "idle"]
  /\ loc = [cache |-> EmptyCache, call |-> [p \in Procs |-> NoCacheCall]]

\* get_session returned: the record of what it gave and what the sheet holds
GotSession(c, sess) == [op |-> "get_session", c |-> c, got |-> sess, stored |-> sessions[c]]

\* a request arrives and get_session calls load_tab, which asks the cache
\* (lines 474-475, 290-293); no other call of the customer is under way
CacheReceive(p, c, text) ==
  LET cached == cache_get(loc.cache)
      hit == cached.hit
      rows == cached.data
  IN /\ pc[p] = "idle"
     /\ loc.call[p].calls < MaxCalls
     /\ \A q \in Procs \ {p} : pc[q] = "idle" \/ loc.call[q].c # c
     /\ pc' = [pc EXCEPT ![p] = IF hit THEN "decide" ELSE "fetch"]
     /\ loc' = [loc EXCEPT !.call[p] = [NoCacheCall EXCEPT !.c = c, !.text = text,
                                          !.rows = rows, !.sess = rows[c],
                                          !.calls = loc.call[p].calls + 1]]
     /\ last' = IF hit THEN GotSession(c, rows[c]) ELSE last
     /\ UNCHANGED <<shop, now, sessions, customers, events>>

\* load_tab reads the tab from the sheet (lines 295-313)
CacheFetch(p) ==
  /\ pc[p] = "fetch"
  /\ loc' = [loc EXCEPT !.call[p].rows = sessions]
  /\ pc' = [pc EXCEPT ![p] = "fill"]
  /\ UNCHANGED <<shop, now, sessions, customers, events, last>>

\* load_tab stores the rows it read and get_session picks the customer's row
\* (lines 315-316, 476-490)
CacheFill(p) ==
  /\ pc[p] = "fill"
  /\ loc' = [loc EXCEPT !.cache = cache_set(loc.call[p].rows),
                        !.call[p].sess = loc.call[p].rows[loc.call[p].c]]
  /\ pc' = [pc EXCEPT ![p] = "decide"]
  /\ last' = GotSession(loc.call[p].c, loc.call[p].rows[loc.call[p].c])
  /\ UNCHANGED <<shop, now, sessions, customers, events>>

\* the call runs its blocks on the session it read
CacheDecide(p) ==
  LET Decided(r) ==
        /\ loc' = [loc EXCEPT !.call[p].effs = r.effs]
        /\ pc' = [pc EXCEPT ![p] = IF r.effs = <<>> THEN "idle" ELSE "write"]
  IN /\ pc[p] = "decide"
     /\ Decided(handle_message(loc.call[p].sess, customers[loc.call[p].c], loc.call[p].text))
     /\ UNCHANGED <<shop, now, sessions, customers, events, last>>

\* the next write of the call reaches the sheet or the calendar; a write of
\* upsert_row has the cache entry still to drop
CacheWrite(p) ==
  /\ pc[p] = "write"
  /\ LET st == ApplyWrites(Store, loc.call[p].c, loc.call[p].effs, 1)
         e == Head(loc.call[p].effs)
         rest == Tail(loc.call[p].effs)
     IN /\ Len(st.events) <= MaxEvents
        /\ sessions' = st.sessions
        /\ customers' = st.customers
        /\ events' = st.events
        /\ loc' = [loc EXCEPT !.call[p].effs = rest]
        /\ pc' = [pc EXCEPT ![p] = IF e.op = "save_session" THEN "drop"
                                   ELSE IF rest = <<>> THEN "idle" ELSE "write"]
  /\ UNCHANGED <<shop, now, last>>

\* upsert_row ends with cache_del (line 389)
CacheDrop(p) ==
  /\ pc[p] = "drop"
  /\ loc' = [loc EXCEPT !.cache = EmptyCache]
  /\ pc' = [pc EXCEPT ![p] = IF loc.call[p].effs = <<>> THEN "idle" ELSE "write"]
  /\ UNCHANGED <<shop, now, sessions, customers, events, last>>

\* CACHE_TTL_SECONDS pass since the entry was stored
CacheExpire ==
  /\ loc.cache.set /\ loc.cache.fresh
  /\ loc' = [loc EXCEPT !.cache.fresh = FALSE]
  /\ UNCHANGED <<shop, now, sessions, customers, events, last, pc>>

NextCache ==
  \/ \E p \in Procs :
       \/ \E c \in AllCustomers, text \in RaceMessages : CacheReceive(p, c, text)
       \/ CacheFetch(p)
       \/ CacheFill(p)
       \/ CacheDecide(p)
       \/ CacheWrite(p)
       \/ CacheDrop(p)
  \/ CacheExpire

SpecCache == InitCache /\ [][NextCache]_vars

(***************************************************************************)
(* Properties of the dialogue.  `last` holds the customer, the message and *)
(* the store as they were before the turn just made.                       *)
(***************************************************************************)
\* the turn just made found a session that was there and had not expired
LiveTurn == last.op = "turn" /\ last.sess.exists /\ ~session_expired(last.sess)

Cancels(text) == \E w \in CANCEL_NORM : Contains(tlow_of(text), w)

Holds(data, key, value) == Has(data, key) /\ value # <<>>

\* the payload of a session holds a service
HoldsService(data) == Has(data, "service") /\ data.service # NO_SERVICE

PayloadFits(s) ==
  /\ s.state = "confirm" => HoldsService(s.data) /\ Holds(s.data, "slot_iso", s.data.slot_iso)
  /\ s.state = "choose" => HoldsService(s.data) /\ Holds(s.data, "options", s.data.options)

\* C1: after any sequence of turns the stored session fits its payload: in
\* state confirm the payload holds a service and the chosen slot (slot_iso),
\* in state choose it holds a service and a non-empty list of options.
C1_SessionFitsPayload == \A c \in AllCustomers : PayloadFits(sessions[c])

\* C1, its case: a numbered choice took a session from choose to confirm
C1_ChoiceConfirmed ==
  LiveTurn /\ last.sess.state = "choose" /\ sessions[last.c].state = "confirm"

\* what a message gives: a time or a bound and no date, a date and nothing else
OnlyTime(text) ==
  /\ date_of(text, DateOf(now)) = NONE
  /\ time_of(text) # NONE \/ window_of(text).after # NONE \/ window_of(text).before # NONE

OnlyDate(text) ==
  /\ date_of(text, DateOf(now)) # NONE
  /\ time_of(text) = NONE /\ window_of(text).after = NONE /\ window_of(text).before = NONE

\* the session waits for the time and knows the date, or the other way round
KnowsDate(s) == s.state = "need_time" /\ Holds(s.data, "date", s.data.date)

KnowsTime(s) ==
  /\ s.state = "need_date"
  /\ \/ Holds(s.data, "time", s.data.time)
     \/ Holds(s.data, "after", s.data.after)
     \/ Holds(s.data, "before", s.data.before)

\* the turn ran the availability search
Searched ==
  \/ sessions[last.c].state \in {"choose", "confirm"}
  \/ last.reply \in {"no_availability_at_time", "no_availability_in_window", "no_availability_soon"}

KeptDate == Has(sessions[last.c].data, "date") /\ sessions[last.c].data.date = last.sess.data.date

KeptTime ==
  /\ Holds(last.sess.data, "time", last.sess.data.time)
       => Has(sessions[last.c].data, "time") /\ sessions[last.c].data.time = last.sess.data.time
  /\ Holds(last.sess.data, "after", last.sess.data.after)
       => Has(sessions[last.c].data, "after") /\ sessions[last.c].data.after = last.sess.data.after
  /\ Holds(last.sess.data, "before", last.sess.data.before)
       => Has(sessions[last.c].data, "before") /\ sessions[last.c].data.before = last.sess.data.before

\* C2: a turn of a collecting state never discards a field already known:
\* when the session holds a date (need_time) and the message gives only a
\* time, or holds a time or a bound (need_date) and the message gives only a
\* date, the turn runs the search or the stored payload still holds the old
\* field.
C2_KnownFieldsKept ==
  (LiveTurn /\ ~Cancels(last.text)) =>
     /\ (KnowsDate(last.sess) /\ OnlyTime(last.text)) => (Searched \/ KeptDate)
     /\ (KnowsTime(last.sess) /\ OnlyDate(last.text)) => (Searched \/ KeptTime)

\* the calendar has a free slot for the service of session s in the week
\* from the day it holds (from today when it holds none)
FreeSlots(s) ==
  find_slots(shop.hours, service_duration(s.data.service),
             IF Holds(s.data, "date", s.data.date) THEN FromIsoDate(s.data.date) ELSE DateOf(now),
             NONE, NONE, NONE, 1, 7) # <<>>

\* C3: service, date and time given one per message, with no cancel word and
\* free slots on the calendar: the turn that gives the last missing piece
\* reaches choose or confirm, it does not go back to a collecting state (so
\* the dialogue cannot go round need_date and need_time for ever).
C3_LastPieceReachesOffer ==
  (/\ LiveTurn /\ ~Cancels(last.text)
   /\ HoldsService(last.sess.data)
   /\ \/ KnowsDate(last.sess) /\ OnlyTime(last.text)
      \/ KnowsTime(last.sess) /\ OnlyDate(last.text)
   /\ FreeSlots(last.sess))
  => sessions[last.c].state \in {"choose", "confirm"}

SameBooking(e, f) ==
  /\ e.kind = "booking" /\ f.kind = "booking"
  /\ e.phone = f.phone /\ e.service = f.service /\ e.start = f.start

\* C4: confirmation is idempotent for every capacity: the calendar never
\* holds two events of the same customer, service and start time.
C4_NoDuplicateBooking ==
  \A i, j \in 1..Len(events) : SameBooking(events[i], events[j]) => i = j

\* C5: two deliveries of the same affirmative message that both read the
\* same session of a customer, in state confirm, never both create an event.
C5_OneEventPerConfirmation ==
  \A p, q \in Procs :
     (/\ p # q
      /\ loc[p].c = loc[q].c /\ loc[p].sess = loc[q].sess
      /\ loc[p].sess.state = "confirm"
      /\ loc[p].text = M_OK /\ loc[q].text = M_OK)
     => ~(loc[p].created /\ loc[q].created)

\* the customers who hold an event overlapping event e
Overlappers(e) == {events[i].phone : i \in OverlappingIn(events, e.start, e.end)}

\* C6: under any interleaving of the confirmations of different customers,
\* the events overlapping a window never outnumber the capacity of the shop:
\* no more than `capacity` customers hold overlapping events.
C6_CapacityAcrossCustomers ==
  \A i \in 1..Len(events) : Cardinality(Overlappers(events[i])) <= Max(1, shop.capacity)

\* the slot and the service the session held before the turn
HeldStart == FromIsoDateTime(last.sess.data.slot_iso)
HeldEnd == HeldStart + service_duration(last.sess.data.service)

\* the turn answered an affirmative word to a session in state confirm that
\* held its slot and its service
Affirmed ==
  /\ LiveTurn /\ ~Cancels(last.text)
  /\ last.sess.state = "confirm"
  /\ tlow_of(last.text) \in CONFIRM_NORM
  /\ HoldsService(last.sess.data)
  /\ Holds(last.sess.data, "slot_iso", last.sess.data.slot_iso)

Conflict == count_overlaps_in(last.events, HeldStart, HeldEnd) >= Max(1, shop.capacity)

\* the slots the search of the confirm block finds on the calendar as it is
FreshSlots == find_slots(shop.hours, HeldEnd - HeldStart, DateOf(HeldStart), NONE, NONE, NONE, 5, 7)

\* C7: an affirmative word in state confirm when the calendar holds at least
\* `capacity` events overlapping the slot: the turn creates no event and
\* leaves the customer's history as it was, and the session ends in choose
\* with the same service and a fresh non-empty list of slots that have
\* capacity, or cleared when the search finds no alternative.
C7_ConflictAtConfirm ==
  (Affirmed /\ Conflict) =>
     /\ events = last.events
     /\ customers[last.c] = last.cust
     /\ \/ /\ sessions[last.c].state = "choose"
           /\ sessions[last.c].data.service = last.sess.data.service
           /\ sessions[last.c].data.options # <<>>
           /\ sessions[last.c].data.options = IsoAll(FreshSlots)
           /\ \A k \in 1..Len(FreshSlots) :
                 count_overlaps(FreshSlots[k], FreshSlots[k] + (HeldEnd - HeldStart))
                   < Max(1, shop.capacity)
        \/ /\ sessions[last.c].state = ""
           /\ sessions[last.c].data = EmptyData
           /\ FreshSlots = <<>>

\* C7, its case: the slot was taken meanwhile and the session is back in choose
C7_ReofferedAfterConflict == Affirmed /\ Conflict /\ sessions[last.c].state = "choose"

\* C8: an affirmative word in state confirm when the capacity check passes:
\* the turn adds exactly one event, at the slot held and for the service
\* held, counts one more visit of the customer, sets the last service and
\* clears the session (state empty, payload empty).
C8_ConfirmBooks ==
  (Affirmed /\ ~Conflict) =>
     /\ events = Append(last.events,
                        NewEvent(HeldStart, HeldEnd, last.c, last.sess.data.service.name))
     /\ customers[last.c].exists
     /\ customers[last.c].total_visits = last.cust.total_visits + 1
     /\ customers[last.c].last_service = last.sess.data.service.name
     /\ sessions[last.c].state = ""
     /\ sessions[last.c].data = EmptyData

\* C8, its case: the second booking of a customer
C8_SecondVisitBooked == Affirmed /\ ~Conflict /\ last.cust.total_visits = 1

\* what a call on session s leaves: the reply and the store after its writes
After(r) == [reply |-> r.reply, store |-> ApplyWrites(Store, last.c, r.effs, Len(r.effs))]

Processed(s, text) == After(handle_message(s, customers[last.c], text))

\* C9: a message with a cancel word, in whatever state the session is,
\* clears the session (state empty, payload empty) and creates no event, and
\* "domani alle 18" is then processed as it is with no session at all.
C9_CancelClears ==
  (last.op = "turn" /\ Cancels(last.text)) =>
     /\ sessions[last.c].state = ""
     /\ sessions[last.c].data = EmptyData
     /\ events = last.events
     /\ Processed(sessions[last.c], M_domani_alle_18) = Processed(NoSession, M_domani_alle_18)

\* C9, its case: the cancel word came to a session waiting for the confirmation
C9_CancelledAtConfirm == LiveTurn /\ Cancels(last.text) /\ last.sess.state = "confirm"

\* C10: in state choose with k options, a message that is a number outside
\* 1..k leaves the stored session as it was: state choose, the same service
\* and the same list of options.
C10_BadNumberKeepsSession ==
  (/\ LiveTurn
   /\ last.sess.state = "choose"
   /\ last.sess.data.options # <<>>
   /\ AllDigits(tlow_of(last.text))
   /\ NumVal(tlow_of(last.text)) \notin 1..Len(last.sess.data.options))
  => /\ sessions[last.c].state = "choose"
     /\ sessions[last.c].data = last.sess.data

\* the number a message consists of, when it consists of digits only
NumberSent == NumVal(tlow_of(last.text))

\* the turn answered a message made of digits to a session in state choose
\* that held its options
NumberToChoose ==
  /\ LiveTurn
  /\ last.sess.state = "choose"
  /\ Holds(last.sess.data, "options", last.sess.data.options)
  /\ AllDigits(tlow_of(last.text))

\* C11: in state choose with k options, a message that is a number n with
\* 1 <= n <= k moves the session to confirm with exactly the n-th option as
\* the slot and the service of the choose payload, and creates no event.
C11_NumberSelectsOption ==
  (NumberToChoose /\ NumberSent \in 1..Len(last.sess.data.options)) =>
     /\ sessions[last.c].state = "confirm"
     /\ sessions[last.c].data.keys = {"service", "slot_iso"}
     /\ sessions[last.c].data.slot_iso = last.sess.data.options[NumberSent]
     /\ sessions[last.c].data.service = last.sess.data.service
     /\ events = last.events
     /\ customers[last.c] = last.cust

\* C11, its case: "2" chose the second of several options
C11_SecondOptionChosen ==
  NumberToChoose /\ NumberSent = 2 /\ Len(last.sess.data.options) >= 2

\* the message states a day, a time or a bound
StatesPreference(text) ==
  \/ date_of(text, DateOf(now)) # NONE
  \/ time_of(text) # NONE
  \/ window_of(text).after # NONE
  \/ window_of(text).before # NONE

\* C12: in state choose a message that states a new date or time (such as
\* "domani alle 3" or "2-12") restarts the search with it: it is never taken
\* as the choice of one of the options on offer.
C12_PreferenceNotTakenAsChoice ==
  (/\ LiveTurn /\ ~Cancels(last.text)
   /\ last.sess.state = "choose"
   /\ Holds(last.sess.data, "options", last.sess.data.options)
   /\ StatesPreference(last.text))
  => last.reply # "ask_confirm_choice"

\* the session the turn found is older than the TTL, or bears no timestamp
FoundOld ==
  /\ last.op = "turn" /\ last.sess.exists
  /\ last.sess.updated_at = NONE \/ now - last.sess.updated_at > SESSION_TTL_MINUTES

\* the session the turn found is no older than the TTL
FoundFresh ==
  /\ last.op = "turn" /\ last.sess.exists
  /\ last.sess.updated_at # NONE /\ now - last.sess.updated_at <= SESSION_TTL_MINUTES

\* what the customer sees of a session: a row with the empty state counts as
\* no row
SessionView(s) == [state |-> s.state, data |-> s.data]

\* the reply and the store the turn leaves when the customer has no session
\* row at all, from the store as it was before the turn
NoSessionStore ==
  [sessions |-> [sessions EXCEPT ![last.c] = NoSession],
   customers |-> [customers EXCEPT ![last.c] = last.cust],
   events |-> last.events]

WithoutSession(r) ==
  [reply |-> r.reply, store |-> ApplyWrites(NoSessionStore, last.c, r.effs, Len(r.effs))]

AsNoSession == WithoutSession(handle_message(NoSession, last.cust, last.text))

\* C13: a stored session older than SESSION_TTL_MINUTES, or with no
\* timestamp, makes no difference: the reply, the session stored after the
\* turn (a row with the empty state counting as none), the customer's row
\* and the calendar are those the message gives with no session; a session
\* no older than the TTL is used as stored.
C13_OldSessionIsNoSession ==
  /\ FoundOld =>
       /\ events = last.events
       /\ last.reply = AsNoSession.reply
       /\ SessionView(sessions[last.c]) = SessionView(AsNoSession.store.sessions[last.c])
       /\ customers[last.c] = AsNoSession.store.customers[last.c]
       /\ events = AsNoSession.store.events
  /\ FoundFresh =>
       /\ Start(last.sess, last.cust, last.text).state = last.sess.state
       /\ Start(last.sess, last.cust, last.text).data = last.sess.data
       /\ Start(last.sess, last.cust, last.text).effs = <<>>

\* C13, its case: "OK" came to a session in state confirm one minute too old
C13_ConfirmOneMinuteTooLate ==
  /\ FoundOld
  /\ last.sess.state = "confirm"
  /\ last.sess.updated_at # NONE
  /\ now - last.sess.updated_at = SESSION_TTL_MINUTES + 1
  /\ tlow_of(last.text) \in CONFIRM_NORM

\* C14: when an external call fails during a turn, the session stored after
\* the turn is the session stored before it, in every state.
C14_FailureKeepsSession ==
  (last.op = "failed" /\ last.sess.exists /\ ~session_expired(last.sess))
  => SessionView(sessions[last.c]) = SessionView(last.sess)

\* the customer repeated an affirmative word to a session in state confirm
\* after a call that failed once the event of the booking was inserted
RetriedAfterInsert ==
  /\ last.op = "retry"
  /\ loc.applied >= 1
  /\ last.sess.exists /\ ~session_expired(last.sess)
  /\ last.sess.state = "confirm"
  /\ tlow_of(last.text) \in CONFIRM_NORM
  /\ HoldsService(last.sess.data)
  /\ Holds(last.sess.data, "slot_iso", last.sess.data.slot_iso)
  /\ \E i \in 1..Len(last.events) :
        last.events[i] = NewEvent(HeldStart, HeldEnd, last.c, last.sess.data.service.name)

\* C15: a failure between the insert of the event and the clearing of the
\* session, followed by the customer repeating the affirmative word, never
\* gives a second event for the booking, whatever the capacity.
C15_RetryAddsNoEvent == RetriedAfterInsert => events = last.events

\* the last step was a call of find_slots
Searching == last.op = "search"

\* the call named a date and a time: the slot of the exact check
ExactAsked == Searching /\ last.preferred_date # NONE /\ last.exact_time # NONE
AskedStart == Combine(last.preferred_date, last.exact_time)

\* [start, start + duration) lies inside one open interval of its weekday
InsideInterval(start, duration) ==
  \E k \in 1..Len(shop.hours[Weekday(DateOf(start))]) :
     /\ Combine(DateOf(start), shop.hours[Weekday(DateOf(start))][k][1]) <= start
     /\ start + duration <= Combine(DateOf(start), shop.hours[Weekday(DateOf(start))][k][2])

\* C16: a requested date and time whose slot lies inside an open interval,
\* is not in the past and has spare capacity comes back alone.
C16_ExactSlotAlone ==
  (/\ ExactAsked
   /\ InsideInterval(AskedStart, last.duration)
   /\ AskedStart >= now
   /\ count_overlaps(AskedStart, AskedStart + last.duration) < shop.capacity)
  => last.result = <<AskedStart>>

\* C16 witness: the slot asked for ends at closing time, one event already
\* overlaps it in a shop of capacity 2, and it is the only result
C16_SharedSlotReturned ==
  /\ ExactAsked
  /\ InsideInterval(AskedStart, last.duration)
  /\ AskedStart >= now
  /\ shop.capacity = 2
  /\ count_overlaps(AskedStart, AskedStart + last.duration) = 1
  /\ TimeOf(AskedStart) + last.duration = T(19, 0)
  /\ last.result = <<AskedStart>>

\* C17: every start find_slots returns begins at or after the start of an
\* open interval of its weekday and ends at or before the end of the same
\* interval, whatever the duration.
C17_ResultsInsideOpenHours ==
  Searching => \A i \in 1..Len(last.result) : InsideInterval(last.result[i], last.duration)

\* C18: the exact check never returns a start earlier than now, whatever
\* the date asked for.
C18_ExactSlotNotInPast ==
  (ExactAsked /\ last.result = <<AskedStart>>) => AskedStart >= now

\* C19: without an exact time, every candidate of today starts strictly
\* after now.
C19_TodayStrictlyAfterNow ==
  (Searching /\ last.exact_time = NONE)
  => \A i \in 1..Len(last.result) :
        DateOf(last.result[i]) = DateOf(now) => last.result[i] > now

\* C20: every returned start had fewer than `capacity` overlapping events
\* on the calendar, whatever the capacity of the shop.
C20_ResultsBelowCapacity ==
  Searching
  => \A i \in 1..Len(last.result) :
        count_overlaps(last.result[i], last.result[i] + last.duration) < shop.capacity

\* a closure event overlaps [start, end)
ClosedAt(start, end) ==
  \E i \in 1..Len(events) :
     events[i].kind = "closure" /\ events[i].end > start /\ events[i].start < end

\* the slots a stored session offers: the options of choose, the slot of confirm
OfferedSlots(s) ==
  IF s.state = "choose" /\ Has(s.data, "options")
    THEN {FromIsoDateTime(s.data.options[i]) : i \in 1..Len(s.data.options)}
  ELSE IF s.state = "confirm" /\ Holds(s.data, "slot_iso", s.data.slot_iso)
    THEN {FromIsoDateTime(s.data.slot_iso)}
  ELSE {}

\* C21: a slot that overlaps a closure event is never offered and never
\* confirmed, whatever the capacity of the shop.
C21_ClosureBlocks ==
  /\ \A c \in AllCustomers : \A start \in OfferedSlots(sessions[c]) :
        ~ClosedAt(start, start + service_duration(sessions[c].data.service))
  /\ \A i \in 1..Len(events) :
        events[i].kind = "booking" => ~ClosedAt(events[i].start, events[i].end)

\* the options of a stored session, as instants
OptionStarts(s) == [i \in 1..Len(s.data.options) |-> FromIsoDateTime(s.data.options[i])]

\* C22: every list of options stored with state choose has at most 5
\* entries and is in strictly increasing chronological order.
C22_OptionsChronological ==
  \A c \in AllCustomers :
     (sessions[c].state = "choose" /\ Has(sessions[c].data, "options"))
     => /\ Len(sessions[c].data.options) <= 5
        /\ \A i \in 1..(Len(sessions[c].data.options) - 1) :
              OptionStarts(sessions[c])[i] < OptionStarts(sessions[c])[i + 1]

\* the turn asked for an exact date and time, found the slot taken and
\* stored the alternatives of pick_better_alternatives
AlternativesOffered ==
  /\ last.op = "turn"
  /\ last.reply = "offer_alternatives"
  /\ sessions[last.c].state = "choose"
  /\ Has(sessions[last.c].data, "options")

\* the date and time the alternatives were computed for: those of the
\* message, or those the session held
RequestedDate ==
  IF date_of(last.text, DateOf(now)) # NONE THEN date_of(last.text, DateOf(now))
  ELSE IF Has(last.sess.data, "pending") /\ last.sess.data.pending.date # <<>>
    THEN FromIsoDate(last.sess.data.pending.date)
  ELSE FromIsoDate(last.sess.data.date)

RequestedTime ==
  IF time_of(last.text) # NONE THEN time_of(last.text)
  ELSE IF Has(last.sess.data, "pending") /\ last.sess.data.pending.time # <<>>
    THEN FromIsoTime(last.sess.data.pending.time)
  ELSE FromIsoTime(last.sess.data.time)

RequestedStart == Combine(RequestedDate, RequestedTime)

\* an alternative of the requested day within the window around the
\* requested time, an alternative of a later day
NearbySameDay(s) ==
  DateOf(s) = RequestedDate /\ Abs(s - RequestedStart) <= NEARBY_WINDOW_MINUTES
LaterDay(s) == DateOf(s) > RequestedDate

\* C23: in the alternatives offered when the exact time is unavailable,
\* every same-day alternative near the requested time, before or after it,
\* is listed before every alternative of a later day.
C23_SameDayBeforeLaterDays ==
  AlternativesOffered
  => \A i, j \in 1..Len(sessions[last.c].data.options) :
        (/\ NearbySameDay(OptionStarts(sessions[last.c])[i])
         /\ LaterDay(OptionStarts(sessions[last.c])[j])) => i < j

\* step 1 of pick_better_alternatives as BookExact calls it (lines 703-723):
\* the same-day slots from the requested time on, within the window
Step1Kept ==
  Take(SelectSeq(SortByDistance(find_slots(shop.hours, service_duration(sessions[last.c].data.service),
                                           RequestedDate, NONE, RequestedTime, NONE, 10, 0),
                                RequestedStart),
                 LAMBDA s : s >= RequestedStart /\ s - RequestedStart <= NEARBY_WINDOW_MINUTES),
       5)

\* step 2 (lines 725-738): the slots of the search "same time on the next
\* days" that the loop appends before the list is full
Step2Contributed ==
  Take(find_slots(shop.hours, service_duration(sessions[last.c].data.service),
                  RequestedDate + 1, RequestedTime, NONE, NONE, 10, 7),
       5 - Len(Step1Kept))

\* C24: every alternative contributed by the step "same time on the
\* following days" has the requested clock time and a date after the
\* requested date.
C24_NextDaysKeepClockTime ==
  AlternativesOffered
  => \A i \in 1..Len(Step2Contributed) :
        /\ TimeOf(Step2Contributed[i]) = RequestedTime
        /\ DateOf(Step2Contributed[i]) > RequestedDate

\* the turn answered a greeting of a customer with no conversation going
\* on: no session row, or a row with the empty state
Greeted ==
  /\ last.op = "turn"
  /\ tlow_of(last.text) \in GREETING_WORDS
  /\ ~last.sess.exists \/ (last.sess.state = "" /\ ~session_expired(last.sess))

\* C25: every greeting (ciao, salve, buongiorno, buonasera, hey) received
\* with no active session is answered with the welcome message, citing the
\* last service when the history has one, and the turn writes nothing to
\* the session store or the calendar.
C25_GreetingWelcomes ==
  Greeted
  => /\ last.reply = (IF last.cust.exists /\ last.cust.last_service # <<>>
                      THEN "welcome_back" ELSE "welcome")
     /\ sessions = [sessions EXCEPT ![last.c] = last.sess]
     /\ events = last.events

\* the events the bot created for customer c
BookingsOf(c) == {i \in 1..Len(events) : events[i].kind = "booking" /\ events[i].phone = c}

\* C26: the customer's history changes only on a confirmed booking: the
\* total of visits equals the number of events created for the customer,
\* and a turn that confirms no booking leaves the customer's row as it was.
C26_HistoryCountsBookings ==
  /\ \A c \in AllCustomers : customers[c].total_visits = Cardinality(BookingsOf(c))
  /\ (last.op = "turn" /\ last.reply # "confirmed") => customers[last.c] = last.cust

\* C26, its case: a customer with one visit cancels a later conversation
\* that had reached confirm, and the history still counts the one booking
C26_CancelAfterVisit ==
  /\ LiveTurn /\ last.reply = "cancelled" /\ last.sess.state = "confirm"
  /\ customers[last.c].total_visits = 1
  /\ Cardinality(BookingsOf(last.c)) = 1

\* C27: in a shop with no active service booking does not proceed: no
\* session reaches choose or confirm and no event is created.
C27_NoServiceNoBooking ==
  shop.services = <<>>
  => /\ \A c \in AllCustomers : sessions[c].state \notin {"choose", "confirm"}
     /\ \A i \in 1..Len(events) : events[i].kind # "booking"

\* the rows a write for customer c must leave alone: those of another number
OtherNumber(row, c) == norm_phone(row.phone) # norm_phone(c)

\* C28: a write made for one customer changes no session row and no
\* history row of a different customer, whether the calls of the two
\* customers run one after the other or interleaved.
C28_OtherRowsUntouched ==
  last.op = "put"
  => /\ \A i \in 1..Len(last.sessions) :
           OtherNumber(last.sessions[i], last.c) => sessions[i] = last.sessions[i]
     /\ \A i \in 1..Len(last.customers) :
           OtherNumber(last.customers[i], last.c) => customers[i] = last.customers[i]

\* C30: for every today and every weekday name in the text, parse_date
\* returns the next date after today with that weekday: a date from
\* today + 1 to today + 7, today + 7 when today is that weekday, never today.
C30_WeekdayIsNextFuture ==
  last.op = "parse_date"
  => /\ last.result # NONE
     /\ last.result >= DateOf(now) + 1
     /\ last.result <= DateOf(now) + 7
     /\ Weekday(last.result) = last.weekday
     /\ Weekday(DateOf(now)) = last.weekday => last.result = DateOf(now) + 7

\* C30, its case: on a Sunday the text names Sunday with an abbreviation,
\* and the date is the Sunday of the week after, in the new year
C30_SundayOnSunday ==
  /\ last.op = "parse_date"
  /\ last.text = S_dom
  /\ Weekday(DateOf(now)) = 6
  /\ last.result = DateOf(now) + 7
  /\ YearOf(last.result) = YearOf(DateOf(now)) + 1

\* C31: parse_time returns the stated hour and the stated minutes for every
\* accepted form of clock time: HH:MM, HH.MM, compact HHMM, and a bare HH
\* beside a cue word (HH:00).
C31_StatedTimeReturned ==
  last.op = "parse_time" => last.result = T(last.hour, last.minute)

\* C32: with an explicit bound and a day part in the text, parse_window
\* returns the explicit bound on its side and the day part's default on the
\* other side.
C32_ExplicitBoundWins ==
  last.op = "parse_window"
  => IF last.side = "after"
     THEN last.result = [after |-> last.bound, before |-> last.hi]
     ELSE last.result = [after |-> last.lo, before |-> last.bound]

\* the turn recorded in last added an event to the calendar
Booked == last.op = "turn" /\ Len(events) > Len(last.events)

BookedEvent == events[Len(events)]

\* C33: a calendar event is created only in a turn that starts with a live
\* session in state confirm, whose message is an affirmative word, and whose
\* capacity check on the calendar as the turn found it passed; it is one
\* event, of the customer of the turn, with the start and the service of the
\* confirm payload.
C33_BookingOnlyOnConfirmation ==
  Booked
  => /\ LiveTurn
     /\ last.sess.state = "confirm"
     /\ tlow_of(last.text) \in CONFIRM_NORM
     /\ Len(events) = Len(last.events) + 1
     /\ SubSeq(events, 1, Len(last.events)) = last.events
     /\ BookedEvent.kind = "booking"
     /\ BookedEvent.phone = last.c
     /\ BookedEvent.start = FromIsoDateTime(last.sess.data.slot_iso)
     /\ BookedEvent.end = BookedEvent.start + service_duration(last.sess.data.service)
     /\ BookedEvent.service = last.sess.data.service.name
     /\ count_overlaps_in(last.events, BookedEvent.start, BookedEvent.end)
          < Max(1, shop.capacity)

\* C33, its case: a confirmation booked a slot that another event of the
\* calendar overlaps, the shop having room for two
C33_ConfirmedBesideAnother ==
  /\ Booked
  /\ last.reply = "confirmed"
  /\ count_overlaps_in(last.events, BookedEvent.start, BookedEvent.end) = 1

\* C34: get_session returns the session most recently written for its
\* customer: what it gives is the customer's row of the sheet, also when
\* calls of other customers run side by side with the customer's calls.
C34_SessionReadIsLatest ==
  last.op = "get_session" => last.got = last.stored

\* the step is a turn of a customer whose message is an affirmative word
AffirmativeTurn == last'.op = "turn" /\ tlow_of(last'.text) \in CONFIRM_NORM

\* C35: a turn that confirmed a booking leaves the customer's session reset,
\* and an affirmative message of a customer whose session is not in state
\* confirm creates no event, changes no customer record and leaves the
\* session out of state confirm: any number of further 'OK' after a
\* confirmed booking add no event and no visit.
C35_RedeliveryHarmless ==
  [][/\ (last'.op = "turn" /\ last'.reply = "confirmed")
          => sessions'[last'.c].state = ""
     /\ (AffirmativeTurn /\ sessions[last'.c].state # "confirm")
          => /\ events' = events
             /\ customers' = customers
             /\ sessions'[last'.c].state # "confirm"]_vars

\* C35, its case: 'OK' came again from a customer with a booking and one
\* visit, whose session had been reset, and nothing was booked
C35_OkAfterBooking ==
  /\ last.op = "turn"
  /\ tlow_of(last.text) \in CONFIRM_NORM
  /\ last.sess.exists /\ last.sess.state = ""
  /\ last.cust.total_visits = 1
  /\ BookingsOf(last.c) # {}
  /\ events = last.events
  /\ customers[last.c] = last.cust

\* the turn answered the beard question of a men's shop, asked in a request
\* that had given a date or a time
UpsellAnswered ==
  /\ LiveTurn
  /\ norm_text(shop.gender) = S_uomo
  /\ last.sess.state = "upsell_barba"
  /\ Has(last.sess.data, "pending")
  /\ last.sess.data.pending.date # <<>> \/ last.sess.data.pending.time # <<>>
  /\ last.text \in {M_solo_taglio, S_taglio_e_barba}

\* C36: in a men's shop the answer to the beard question ('solo taglio' or
\* 'taglio e barba') continues the booking with the date and time given
\* before: the turn runs the availability search and does not ask again when
\* to come.
C36_UpsellAnswerContinues ==
  UpsellAnswered => Searched /\ last.reply \notin {"guide", "guide_with_services"}

=============================================================================
